---- MODULE Spec2Model ----
(***************************************************************************)
(* Forge Finance (Solana): the crucible cToken vault, the lending market,  *)
(* the USDC lending pool and the leveraged positions, as state machines.   *)
(* Every instruction handler is one action; a handler that returns an      *)
(* error leaves the accounts as they were (the runtime rolls the           *)
(* transaction back) and only the recorded result of the call changes.     *)
(*                                                                         *)
(* Amounts are u64/u128 in the program.  Every amount of the model stays   *)
(* far below 2^31, so the checked_* overflow branches of the handlers      *)
(* cannot be taken inside the model's bounds; the products the program     *)
(* forms in u64/u128 are formed exactly by MulDiv.                         *)
(***************************************************************************)
EXTENDS Integers, Sequences, FiniteSets, TLC

VARIABLES
    crucible,        \* the Crucible account (state.rs)
    vault_amount,    \* token balance of the crucible's base vault
    ctoken_supply,   \* supply of the cToken mint
    user_ctoken,     \* cToken balance of each user
    treasury_amount, \* base tokens received by the treasury
    last,            \* the last call and what it returned
    pending_mint,    \* history: the last successful mint, while nothing changed since
    nops,            \* number of state-changing steps taken (model bound)
    now,             \* Clock::get().unix_timestamp
    market,          \* the lending Market account (lending/state.rs)
    market_vault,    \* token balance of the market's vault
    receipts,        \* receipt-token balance of each user
    mborrowers,      \* the market's BorrowerAccount of each user
    pool,            \* the LendingPool account (lending-pool)
    pool_vault,      \* USDC balance of the pool's vault
    pborrowers,      \* the pool's BorrowerAccount of each user
    usdc,            \* USDC balance of each user's token account
    slot,            \* Clock::get().slot
    oracle,          \* the price account the crucible is configured with
    positions,       \* the LeveragedPosition account of each user (lvf.rs)
    base_tokens,     \* base-token balance of each user's token account
    inferno,         \* the InfernoCrucible account with its vaults, treasuries,
                     \* LP positions and the users' token accounts
    lp_accounts      \* the LP side of the Crucible account (exchange_rate,
                     \* total_ctoken_supply, total_lp_positions,
                     \* total_lp_token_supply) with the USDC vault, the USDC
                     \* treasury, the LP tokens and the LPPositionAccounts

ctokVars == <<crucible, vault_amount, ctoken_supply, user_ctoken, treasury_amount>>
ctokHist == <<pending_mint>>
marketVars == <<market, market_vault, receipts, mborrowers>>
poolVars == <<pool, pool_vault, pborrowers, usdc>>
lvfVars == <<slot, oracle, positions, base_tokens, inferno, lp_accounts>>
vars == <<crucible, vault_amount, ctoken_supply, user_ctoken, treasury_amount,
          last, pending_mint, nops, now, market, market_vault, receipts,
          mborrowers, pool, pool_vault, pborrowers, usdc,
          slot, oracle, positions, base_tokens, inferno, lp_accounts>>

-----------------------------------------------------------------------------
(* Bounds of the model *)

MaxOps == 3
MaxRatio == 500
MaxNoops == 1

Users == {"alice", "bob"}
MintAmounts == {999, 1999, 1000000}
\* u64 amounts as digit sequences in base 10^6 (least significant first):
\* 20_000_000_000_000, 400_000_000_000_000_000, 10^18 + 1
LargeMintAmounts == {<<0, 0, 20>>, <<0, 0, 400000>>, <<1, 0, 0, 1>>}
ArbAmounts == {0, 4321}
DonationAmounts == {1, 2500}
OutflowAmounts == {1}
FeeRates == {0, 10000}

MaxLendOps == 3
MaxRepayOps == 4
MaxIndex == 2000000000
StartTime == 1000
Times == {StartTime, StartTime + 15768000, StartTime + 31536000}
RateModels ==
    {[base_rate_bps |-> 0, slope1_bps |-> 0, slope2_bps |-> 0, kink_bps |-> 8000],
     [base_rate_bps |-> 200, slope1_bps |-> 1000, slope2_bps |-> 5000, kink_bps |-> 8000]}
SupplyAmounts == {4000}
MarketAmounts == {0, 300}
PoolDeposits == {0, 3000000}
PoolAmounts == {0, 500000}
InitialUsdc == 5000000

MaxLvfOps == 3
Lenders == {"bob"}
Traders == {"alice"}
MaxSlot == 39420000
SlotSteps == {39420000}
InitialBase == 2000000
InfernoBase == 1000000000
LvfFeeRates == {200}
Collaterals == {999, 1000, 1000000}
Leverages == {100, 185, 201}
Slippages == {0, 200, 10001}
\* <<collateral_amount, leverage_factor, oracle account passed>>
OpenInputs == (Collaterals \X Leverages \X {TRUE}) \cup {<<1000, 100, FALSE>>}
\* <<max_slippage_bps, oracle account passed>>
CloseInputs == (Slippages \X {TRUE}) \cup {<<200, FALSE>>}
\* <<position owner co-signs, oracle account passed>>
LiquidateInputs == (BOOLEAN \X {TRUE}) \cup {<<FALSE, FALSE>>}
Quotes ==
    {[price |-> 100000000, expo |-> -8, conf |-> 0, publish_time |-> 0],
     [price |-> 100010000, expo |-> -8, conf |-> 0, publish_time |-> 0],
     [price |-> 99985000, expo |-> -8, conf |-> 0, publish_time |-> 0],
     [price |-> 40000000, expo |-> -8, conf |-> 0, publish_time |-> 0],
     [price |-> 100000000, expo |-> -8, conf |-> 6000000, publish_time |-> 0],
     [price |-> 40000000, expo |-> -8, conf |-> 2004000, publish_time |-> 0],
     [price |-> 99999, expo |-> -8, conf |-> 0, publish_time |-> 0],
     [price |-> 1000001, expo |-> 0, conf |-> 0, publish_time |-> 0]}
\* 1.00, 0.99985 and 2.00 USD
OpenQuotes ==
    {[price |-> 100000000, expo |-> -8, conf |-> 0, publish_time |-> 0],
     [price |-> 99985000, expo |-> -8, conf |-> 0, publish_time |-> 0],
     [price |-> 200000000, expo |-> -8, conf |-> 0, publish_time |-> 0]}
\* <<collateral_amount, leverage_factor>>
OpenLeveragedInputs ==
    {<<999, 150>>, <<1000, 99>>, <<1000, 100>>, <<1000, 150>>, <<1000, 201>>,
     <<1234567, 101>>, <<1234567, 200>>}

-----------------------------------------------------------------------------
(* Program constants, ctoken.rs *)

PRICE_SCALE_FACTOR == 1000000
WRAP_FEE_BPS == 50
UNWRAP_FEE_BPS_SPECIAL == 75
VAULT_FEE_SHARE_BPS == 8000
ARBITRAGE_VAULT_SHARE_BPS == 8000
ARBITRAGE_REWARD_BPS == 100
MIN_DEPOSIT_AMOUNT == 1000
MAX_VAULT_DEVIATION_BPS == 10000

-----------------------------------------------------------------------------
(* Exact integer arithmetic *)

\* <<q, r>> with a * b = q * c + r and 0 <= r < c, without forming a * b:
\* one binary digit of b at a time, every sum kept below c.
RECURSIVE MulDivRemBits(_, _, _)
MulDivRemBits(a, b, c) ==
    IF b = 0 THEN <<0, 0>>
    ELSE LET h == MulDivRemBits(a, b \div 2, c)
             \* x + y for 0 <= x, y < c as <<carry, sum mod c>>
             add(x, y) == IF x >= c - y THEN <<1, x - (c - y)>> ELSE <<0, x + y>>
             d == add(h[2], h[2])
             e == add(d[2], a % c)
         IN  IF b % 2 = 1
             THEN <<2 * h[1] + d[1] + (a \div c) + e[1], e[2]>>
             ELSE <<2 * h[1] + d[1], d[2]>>

\* The digits are taken from the smaller factor.
MulDivRem(a, b, c) ==
    IF a >= b /\ c > 0 THEN MulDivRemBits(a, b, c) ELSE MulDivRemBits(b, a, c)

\* a.checked_mul(b).checked_div(c) where the product fits: floor(a * b / c).
MulDiv(a, b, c) ==
    IF a = 0 \/ b = 0 THEN 0
    ELSE IF b <= 2147483647 \div a THEN (a * b) \div c
    ELSE MulDivRem(a, b, c)[1]

-----------------------------------------------------------------------------
(* u64 values beyond 2^31: little-endian digit sequences in base 10^6 without
   leading zero digits, so that checked_mul / checked_add / checked_sub can be
   decided at the width the program computes in. *)

RECURSIVE Digits(_)
Digits(n) == IF n = 0 THEN <<>> ELSE <<n % 1000000>> \o Digits(n \div 1000000)

\* u64::MAX = 18_446_744_073_709_551_615
U64_MAX == <<551615, 73709, 446744, 18>>

\* ctoken.rs: MAX_DEPOSIT_AMOUNT = 1_000_000_000_000_000_000
MAX_DEPOSIT_AMOUNT == <<0, 0, 0, 1>>

\* The digit sequence denotes a number below 2^31 = 2147_483648.
FitsInt(w) ==
    \/ Len(w) <= 1
    \/ Len(w) = 2 /\ (w[2] < 2147 \/ (w[2] = 2147 /\ w[1] <= 483647))

Number(w) == IF Len(w) = 0 THEN 0
             ELSE IF Len(w) = 1 THEN w[1]
             ELSE w[2] * 1000000 + w[1]

RECURSIVE Trimmed(_)
Trimmed(w) == IF Len(w) > 0 /\ w[Len(w)] = 0 THEN Trimmed(SubSeq(w, 1, Len(w) - 1))
              ELSE w

RECURSIVE LessFrom(_, _, _)
LessFrom(a, b, i) ==
    IF i = 0 THEN FALSE
    ELSE IF a[i] # b[i] THEN a[i] < b[i]
    ELSE LessFrom(a, b, i - 1)

Less(a, b) == IF Len(a) # Len(b) THEN Len(a) < Len(b) ELSE LessFrom(a, b, Len(a))

RECURSIVE TimesCarry(_, _, _)
TimesCarry(w, k, carry) ==
    IF Len(w) = 0 THEN Digits(carry)
    ELSE LET qr == MulDivRem(w[1], k, 1000000)
             low == qr[2] + (carry % 1000000)
         IN  <<low % 1000000>>
             \o TimesCarry(Tail(w), k, qr[1] + (carry \div 1000000) + (low \div 1000000))

\* w * k for 0 <= k < 2^31
Product(w, k) == Trimmed(TimesCarry(w, k, 0))

\* <<quotient digits, remainder>> of w / k, dividing from the top digit;
\* 0 < k and k + 10^6 < 2^31
RECURSIVE DividedFrom(_, _, _, _)
DividedFrom(w, k, i, rem) ==
    IF i = 0 THEN <<>>
    ELSE LET qr == MulDivRem(rem, 1000000, k)
             cur == qr[2] + w[i]
         IN  DividedFrom(w, k, i - 1, cur % k) \o <<qr[1] + (cur \div k)>>

Divided(w, k) == Trimmed(DividedFrom(w, k, Len(w), 0))

RECURSIVE PlusCarry(_, _, _)
PlusCarry(a, b, carry) ==
    IF Len(a) = 0 /\ Len(b) = 0 THEN Digits(carry)
    ELSE LET x == IF Len(a) = 0 THEN 0 ELSE a[1]
             y == IF Len(b) = 0 THEN 0 ELSE b[1]
             t == x + y + carry
         IN  <<t % 1000000>>
             \o PlusCarry(IF Len(a) = 0 THEN a ELSE Tail(a),
                          IF Len(b) = 0 THEN b ELSE Tail(b), t \div 1000000)

Plus(a, b) == Trimmed(PlusCarry(a, b, 0))

\* a - b for b <= a
RECURSIVE MinusBorrow(_, _, _)
MinusBorrow(a, b, borrow) ==
    IF Len(a) = 0 THEN <<>>
    ELSE LET y == (IF Len(b) = 0 THEN 0 ELSE b[1]) + borrow
             under == a[1] < y
         IN  <<IF under THEN a[1] + 1000000 - y ELSE a[1] - y>>
             \o MinusBorrow(Tail(a), IF Len(b) = 0 THEN b ELSE Tail(b),
                            IF under THEN 1 ELSE 0)

Minus(a, b) == Trimmed(MinusBorrow(a, b, 0))

\* u64 checked_mul, checked_add, checked_sub, checked_div: None is ok = FALSE
checked_mul(a, k) ==
    LET p == Product(a, k) IN [ok |-> ~Less(U64_MAX, p), v |-> p]

checked_add(a, b) ==
    LET t == Plus(a, b) IN [ok |-> ~Less(U64_MAX, t), v |-> t]

checked_sub(a, b) ==
    IF Less(a, b) THEN [ok |-> FALSE, v |-> <<>>] ELSE [ok |-> TRUE, v |-> Minus(a, b)]

checked_div(a, k) ==
    IF k = 0 THEN [ok |-> FALSE, v |-> <<>>] ELSE [ok |-> TRUE, v |-> Divided(a, k)]

-----------------------------------------------------------------------------
(* f64 values (IEEE 754 binary64, round to nearest even) as used by the oracle
   price parsing: a positive value is m * 2^e with 2^52 <= m < 2^53, m a digit
   sequence; zero has m = <<>>. *)

TwoTo52 == <<370496, 599627, 4503>>
TwoTo53 == <<740992, 199254, 9007>>
TwoTo54 == <<481984, 398509, 18014>>

F64Zero == [m |-> <<>>, e |-> 0]

Odd(w) == Len(w) > 0 /\ w[1] % 2 = 1

RECURSIVE LongProduct(_, _)
LongProduct(x, y) ==
    IF Len(y) = 0 THEN <<>>
    ELSE Plus(Product(x, y[1]), <<0>> \o LongProduct(x, Tail(y)))

\* 2 * w
Doubled(w) == Plus(w, w)

\* w / 2, dividing from the top digit
RECURSIVE HalvedFrom(_, _, _)
HalvedFrom(w, i, rem) ==
    IF i = 0 THEN <<>>
    ELSE HalvedFrom(w, i - 1, (w[i] + rem * 1000000) % 2)
            \o <<(w[i] + rem * 1000000) \div 2>>

Halved(w) == Trimmed(HalvedFrom(w, Len(w), 0))

\* an integer 0 <= w < 2^53 is exact
RECURSIVE Normalised(_, _)
Normalised(w, e) ==
    IF Len(w) = 0 THEN F64Zero
    ELSE IF Less(w, TwoTo52) THEN Normalised(Doubled(w), e - 1)
    ELSE [m |-> w, e |-> e]

\* the mantissa m1 * 2^(e+1) after rounding, renormalised when it reached 2^53
Carried(m1, e) ==
    IF m1 = TwoTo53 THEN [m |-> TwoTo52, e |-> e + 2] ELSE [m |-> m1, e |-> e + 1]

\* m = x / 2; the dropped bit rounds up when it is set and either something
\* was dropped below it or m is odd
Nearest(m, odd, sticky, e) ==
    Carried(IF odd /\ (sticky \/ Odd(m)) THEN Plus(m, <<1>>) ELSE m, e)

\* x * 2^e with x >= 2^53, inexact when sticky: the nearest 53-bit value,
\* ties to the even one
RECURSIVE Rounded(_, _, _)
Rounded(x, e, sticky) ==
    IF ~Less(x, TwoTo54)
    THEN Rounded(Halved(x), e + 1, sticky \/ Odd(x))
    ELSE Nearest(Halved(x), Odd(x), sticky, e)

f64_from(w) == Normalised(w, 0)

f64_mul(a, b) ==
    IF Len(a.m) = 0 \/ Len(b.m) = 0 THEN F64Zero
    ELSE Rounded(LongProduct(a.m, b.m), a.e + b.e, FALSE)

\* <<floor(rem * 2^(n-1) / d), remainder # 0>>, one quotient bit at a time
RECURSIVE QuotientBits(_, _, _, _)
QuotientStep(rem, d, q, n, bit) ==
    QuotientBits(Doubled(IF bit THEN Minus(rem, d) ELSE rem), d,
                 Plus(Doubled(q), IF bit THEN <<1>> ELSE <<>>), n - 1)

QuotientBits(rem, d, q, n) ==
    IF n = 0 \/ Len(q) > 56 THEN <<q, Len(rem) > 0>>
    ELSE QuotientStep(rem, d, q, n, ~Less(rem, d))

RoundedQuotient(qs, e) == Rounded(qs[1], e, qs[2])

f64_div(a, b) ==
    IF Len(a.m) = 0 THEN F64Zero
    ELSE RoundedQuotient(QuotientBits(a.m, b.m, <<>>, 56), a.e - b.e - 55)

f64_lt(a, b) ==
    IF Len(b.m) = 0 THEN FALSE
    ELSE IF Len(a.m) = 0 THEN TRUE
    ELSE IF a.e # b.e THEN a.e < b.e
    ELSE Less(a.m, b.m)

\* `as u64`: toward zero, saturating at u64::MAX
RECURSIVE Shifted(_, _)
Shifted(w, e) ==
    IF e = 0 \/ Len(w) = 0 THEN w
    ELSE IF e < 0 THEN Shifted(Halved(w), e + 1)
    ELSE IF Less(U64_MAX, w) THEN U64_MAX
    ELSE Shifted(Doubled(w), e - 1)

Saturated(w) == IF Less(U64_MAX, w) THEN U64_MAX ELSE w

f64_as_u64(a) == Saturated(Shifted(a.m, a.e))

\* 10.0_f64.powi(n), exact for 0 <= n <= 15
RECURSIVE TenTo(_)
TenTo(n) == IF n = 0 THEN <<1>> ELSE Product(TenTo(n - 1), 10)

powi10(n) == f64_from(TenTo(n))

-----------------------------------------------------------------------------
(* Results of calls *)

NoCall ==
    [op |-> "none", user |-> "none", err |-> "Ok", amount |-> 0, fee |-> 0,
     vault_fee_share |-> 0, protocol_fee_share |-> 0, net |-> 0, ctokens |-> 0,
     exchange_rate |-> 0, supply_before |-> 0, tracked_before |-> 0,
     paid_out |-> 0, round_trip |-> FALSE, rt_amount |-> 0, rt_mint_fee |-> 0,
     rt_vault_share |-> 0, rt_rate |-> 0, rt_noops |-> 0,
     amount_u64 |-> <<>>, failed_step |-> "none"]

Failed(op, u, amount, e) ==
    [NoCall EXCEPT !.op = op, !.user = u, !.amount = amount, !.err = e]

NoPending == [active |-> FALSE, user |-> "none", amount |-> 0, wrap_fee |-> 0,
              vault_fee_share |-> 0, ctokens |-> 0, rate_after |-> 0, noops |-> 0]

Tracked(c) == c.total_base_deposited + c.total_fees_accrued

-----------------------------------------------------------------------------
(* ctoken.rs: calculate_exchange_rate *)

calculate_exchange_rate_double_counts_fees(c, va, supply) ==
    IF va < c.expected_vault_balance
    THEN [ok |-> FALSE, err |-> "VaultBalanceMismatch", rate |-> 0]
    ELSE IF supply = 0
    THEN [ok |-> TRUE, err |-> "Ok", rate |-> PRICE_SCALE_FACTOR]
    ELSE [ok |-> TRUE, err |-> "Ok",
          rate |-> MulDiv(Tracked(c) + c.total_fees_accrued, 1000000, supply)]

calculate_exchange_rate_skips_shortfall(c, va, supply) ==
    IF supply = 0
    THEN [ok |-> TRUE, err |-> "Ok", rate |-> PRICE_SCALE_FACTOR]
    ELSE [ok |-> TRUE, err |-> "Ok", rate |-> MulDiv(Tracked(c), 1000000, supply)]

calculate_exchange_rate_uses_vault(c, va, supply) ==
    IF va < c.expected_vault_balance
    THEN [ok |-> FALSE, err |-> "VaultBalanceMismatch", rate |-> 0]
    ELSE IF supply = 0
    THEN [ok |-> TRUE, err |-> "Ok", rate |-> PRICE_SCALE_FACTOR]
    ELSE [ok |-> TRUE, err |-> "Ok", rate |-> MulDiv(va, 1000000, supply)]

calculate_exchange_rate(c, va, supply) ==
    IF va < c.expected_vault_balance
    THEN [ok |-> FALSE, err |-> "VaultBalanceMismatch", rate |-> 0]
    ELSE IF /\ va > c.expected_vault_balance
            /\ c.expected_vault_balance > 0
            /\ MulDiv(va - c.expected_vault_balance, 10000, c.expected_vault_balance)
                 > MAX_VAULT_DEVIATION_BPS
    THEN [ok |-> FALSE, err |-> "VaultBalanceMismatch", rate |-> 0]
    ELSE IF supply = 0
    THEN [ok |-> TRUE, err |-> "Ok", rate |-> PRICE_SCALE_FACTOR]
    ELSE [ok |-> TRUE, err |-> "Ok", rate |-> MulDiv(Tracked(c), 1000000, supply)]

\* The accounts of the cToken instructions, as one record.
CState == [crucible |-> crucible, vault_amount |-> vault_amount,
           ctoken_supply |-> ctoken_supply, user_ctoken |-> user_ctoken,
           treasury_amount |-> treasury_amount]

-----------------------------------------------------------------------------
(* ctoken.rs: mint_ctoken *)

vault_share_of_fee(fee) == MulDiv(fee, VAULT_FEE_SHARE_BPS, 10000)

\* a.checked_mul(k).and_then(|v| v.checked_div(d)) in u64
protocol_paused_never(c) == FALSE

\* require!(!ctx.accounts.crucible.paused, CrucibleError::ProtocolPaused)
protocol_paused(c) == c.paused

mul_div_u64(a, k, d) ==
    LET scaled == checked_mul(a, k)
    IN  IF scaled.ok THEN checked_div(scaled.v, d) ELSE scaled

ctokens_for_gross_deposit(amount, net_deposit, exchange_rate) ==
    mul_div_u64(amount, 1000000, exchange_rate)

ctokens_for(amount, net_deposit, exchange_rate) ==
    mul_div_u64(net_deposit, 1000000, exchange_rate)

\* amount is the u64 argument as a digit sequence; the accounts hold numbers
\* below 2^31, and so do the results of a mint the state machine applies.
mint_ctoken_result(s, u, amount) ==
    LET c == s.crucible
        er == calculate_exchange_rate(c, s.vault_amount, s.ctoken_supply)
        wrap_fee == mul_div_u64(amount, WRAP_FEE_BPS, 10000)
        vault_fee_share == mul_div_u64(wrap_fee.v, VAULT_FEE_SHARE_BPS, 10000)
        protocol_fee_share == checked_sub(wrap_fee.v, vault_fee_share.v)
        net_deposit == checked_sub(amount, wrap_fee.v)
        ctokens_to_mint == ctokens_for(amount, net_deposit.v, er.rate)
        total_base_deposited == checked_add(Digits(c.total_base_deposited), net_deposit.v)
        expected_net == checked_add(Digits(c.expected_vault_balance), net_deposit.v)
        expected_vault_balance == checked_add(expected_net.v, vault_fee_share.v)
        total_fees_accrued == checked_add(Digits(c.total_fees_accrued), vault_fee_share.v)
        shown == IF FitsInt(amount) THEN Number(amount) ELSE 0
        fail(e) == [st |-> s,
                    res |-> [Failed("mint_ctoken", u, shown, e)
                               EXCEPT !.amount_u64 = amount]]
        overflow(e, step) ==
            [st |-> s,
             res |-> [Failed("mint_ctoken", u, shown, e)
                        EXCEPT !.amount_u64 = amount, !.failed_step = step]]
    IN  IF protocol_paused(c) THEN fail("ProtocolPaused")
        ELSE IF Less(amount, Digits(MIN_DEPOSIT_AMOUNT)) THEN fail("InvalidAmount")
        ELSE IF Less(MAX_DEPOSIT_AMOUNT, amount) THEN fail("InvalidAmount")
        ELSE IF ~er.ok THEN fail(er.err)
        ELSE IF ~wrap_fee.ok THEN overflow("ArithmeticOverflow", "wrap_fee")
        ELSE IF ~vault_fee_share.ok
             THEN overflow("ArithmeticOverflow", "vault_fee_share")
        ELSE IF ~protocol_fee_share.ok
             THEN overflow("ArithmeticOverflow", "protocol_fee_share")
        ELSE IF ~net_deposit.ok THEN overflow("ArithmeticOverflow", "net_deposit")
        ELSE IF ~ctokens_to_mint.ok
             THEN overflow("InvalidArgument", "ctokens_to_mint")
        ELSE IF ~total_base_deposited.ok
             THEN overflow("ArithmeticOverflow", "total_base_deposited")
        ELSE IF ~expected_net.ok \/ ~expected_vault_balance.ok
             THEN overflow("ArithmeticOverflow", "expected_vault_balance")
        ELSE IF ~total_fees_accrued.ok
             THEN overflow("ArithmeticOverflow", "total_fees_accrued")
        ELSE [st |->
                [crucible |->
                    [c EXCEPT !.total_base_deposited = Number(total_base_deposited.v),
                              !.expected_vault_balance =
                                  Number(expected_vault_balance.v),
                              !.total_fees_accrued = Number(total_fees_accrued.v)],
                 vault_amount |-> s.vault_amount + Number(net_deposit.v)
                                    + Number(vault_fee_share.v),
                 ctoken_supply |-> s.ctoken_supply + Number(ctokens_to_mint.v),
                 user_ctoken |-> [s.user_ctoken EXCEPT
                                     ![u] = @ + Number(ctokens_to_mint.v)],
                 treasury_amount |-> s.treasury_amount
                                       + Number(protocol_fee_share.v)],
              res |->
                [NoCall EXCEPT !.op = "mint_ctoken", !.user = u, !.amount = shown,
                               !.amount_u64 = amount,
                               !.fee = Number(wrap_fee.v),
                               !.vault_fee_share = Number(vault_fee_share.v),
                               !.protocol_fee_share = Number(protocol_fee_share.v),
                               !.net = Number(net_deposit.v),
                               !.ctokens = Number(ctokens_to_mint.v),
                               !.exchange_rate = er.rate,
                               !.supply_before = s.ctoken_supply,
                               !.tracked_before = Tracked(c)]]

-----------------------------------------------------------------------------
(* ctoken.rs: burn_ctoken *)

unwrap_fee_of(gross) == MulDiv(gross, UNWRAP_FEE_BPS_SPECIAL, 10000)

base_for_ignores_rate(ctokens_amount, exchange_rate) == ctokens_amount

base_for(ctokens_amount, exchange_rate) ==
    MulDiv(ctokens_amount, exchange_rate, PRICE_SCALE_FACTOR)

principal_portion_of(c, gross) == MulDiv(gross, c.total_base_deposited, Tracked(c))

burn_ctoken_result(s, u, ctokens_amount) ==
    LET c == s.crucible
        er == calculate_exchange_rate(c, s.vault_amount, s.ctoken_supply)
        base_to_return_before_fee == base_for(ctokens_amount, er.rate)
        unwrap_fee == unwrap_fee_of(base_to_return_before_fee)
        vault_fee_share == vault_share_of_fee(unwrap_fee)
        protocol_fee_share == unwrap_fee - vault_fee_share
        base_to_return == base_to_return_before_fee - unwrap_fee
        total_deducted == base_to_return + protocol_fee_share
        principal_portion == principal_portion_of(c, base_to_return_before_fee)
        fail(e) == [st |-> s, res |-> Failed("burn_ctoken", u, ctokens_amount, e)]
    IN  IF protocol_paused(c) THEN fail("ProtocolPaused")
        ELSE IF ~er.ok THEN fail(er.err)
        ELSE IF base_to_return_before_fee > s.vault_amount
             THEN fail("InsufficientLiquidity")
        \* token::burn fails when the user holds fewer cTokens than asked
        ELSE IF s.user_ctoken[u] < ctokens_amount THEN fail("TokenInsufficientFunds")
        ELSE IF Tracked(c) = 0 THEN fail("InvalidAmount")
        ELSE IF c.total_base_deposited < principal_portion THEN fail("InvalidAmount")
        ELSE IF c.expected_vault_balance < total_deducted THEN fail("InvalidAmount")
        ELSE [st |->
                [crucible |->
                    [c EXCEPT !.total_base_deposited = @ - principal_portion,
                              !.expected_vault_balance = @ - total_deducted,
                              !.total_fees_accrued = @ + vault_fee_share],
                 vault_amount |-> s.vault_amount - total_deducted,
                 ctoken_supply |-> s.ctoken_supply - ctokens_amount,
                 user_ctoken |-> [s.user_ctoken EXCEPT ![u] = @ - ctokens_amount],
                 treasury_amount |-> s.treasury_amount + protocol_fee_share],
              res |->
                [NoCall EXCEPT !.op = "burn_ctoken", !.user = u,
                               !.amount = ctokens_amount,
                               !.fee = unwrap_fee,
                               !.vault_fee_share = vault_fee_share,
                               !.protocol_fee_share = protocol_fee_share,
                               !.net = base_to_return_before_fee,
                               !.ctokens = ctokens_amount,
                               !.exchange_rate = er.rate,
                               !.supply_before = s.ctoken_supply,
                               !.tracked_before = Tracked(c),
                               !.paid_out = base_to_return]]

-----------------------------------------------------------------------------
(* ctoken.rs: deposit_arbitrage_profit *)

deposit_arbitrage_profit_result(s, u, amount) ==
    LET c == s.crucible
        er == calculate_exchange_rate(c, s.vault_amount, s.ctoken_supply)
        vault_share == MulDiv(amount, ARBITRAGE_VAULT_SHARE_BPS, 10000)
        treasury_share == amount - vault_share
        reward_amount == MulDiv(amount, ARBITRAGE_REWARD_BPS, 10000)
        reward_ctokens ==
            IF reward_amount > 0 /\ s.ctoken_supply > 0
            THEN MulDiv(reward_amount, PRICE_SCALE_FACTOR, er.rate)
            ELSE 0
        fail(e) == [st |-> s, res |-> Failed("deposit_arbitrage_profit", u, amount, e)]
    IN  IF protocol_paused(c) THEN fail("ProtocolPaused")
        ELSE IF amount = 0 THEN fail("InvalidAmount")
        ELSE IF ~er.ok THEN fail(er.err)
        ELSE IF reward_amount > 0 /\ s.ctoken_supply > 0 /\ er.rate = 0
             THEN fail("InvalidAmount")
        ELSE [st |->
                [crucible |->
                    [c EXCEPT !.total_fees_accrued = @ + vault_share,
                              !.expected_vault_balance = @ + vault_share],
                 vault_amount |-> s.vault_amount + vault_share,
                 ctoken_supply |-> s.ctoken_supply + reward_ctokens,
                 user_ctoken |-> [s.user_ctoken EXCEPT ![u] = @ + reward_ctokens],
                 treasury_amount |-> s.treasury_amount + treasury_share],
              res |->
                [NoCall EXCEPT !.op = "deposit_arbitrage_profit", !.user = u,
                               !.amount = amount,
                               !.vault_fee_share = vault_share,
                               !.protocol_fee_share = treasury_share,
                               !.ctokens = reward_ctokens,
                               !.exchange_rate = er.rate,
                               !.supply_before = s.ctoken_supply,
                               !.tracked_before = Tracked(c)]]

-----------------------------------------------------------------------------
(* lending: the Market and its interest accrual (lending/src/lib.rs) *)

RATE_SCALE == 1000000000
SECONDS_PER_YEAR == 31536000

Max(a, b) == IF a >= b THEN a ELSE b

\* floor((p * x + a * y) / (p + a)), the weighted average both lending
\* programs store for a borrower who borrows again.
WeightedAverage(p, x, a, y) ==
    LET n == p + a
        px == MulDivRem(p, x, n)
        ay == MulDivRem(a, y, n)
    IN  px[1] + ay[1] + ((px[2] + ay[2]) \div n)

\* bps * RATE_SCALE / 10_000
bps_scaled(bps) == MulDiv(bps, RATE_SCALE, 10000)

\* util_scaled of do_accrue_interest
util_scaled_of(m) == MulDiv(m.total_borrowed, RATE_SCALE, Max(1, m.total_supply))

ir_scaled_with_slope2_from_zero(m) ==
    LET util_scaled == util_scaled_of(m)
        kink_scaled == bps_scaled(m.interest_model.kink_bps)
        base_scaled == bps_scaled(m.interest_model.base_rate_bps)
        slope1_scaled == bps_scaled(m.interest_model.slope1_bps)
        slope2_scaled == bps_scaled(m.interest_model.slope2_bps)
    IN  IF util_scaled <= kink_scaled
        THEN base_scaled + MulDiv(util_scaled, slope1_scaled, RATE_SCALE)
        ELSE base_scaled + MulDiv(kink_scaled, slope1_scaled, RATE_SCALE)
               + MulDiv(util_scaled, slope2_scaled, RATE_SCALE)

\* ir_scaled of do_accrue_interest
ir_scaled_of(m) ==
    LET util_scaled == util_scaled_of(m)
        kink_scaled == bps_scaled(m.interest_model.kink_bps)
        base_scaled == bps_scaled(m.interest_model.base_rate_bps)
        slope1_scaled == bps_scaled(m.interest_model.slope1_bps)
        slope2_scaled == bps_scaled(m.interest_model.slope2_bps)
    IN  IF util_scaled <= kink_scaled
        THEN base_scaled + MulDiv(util_scaled, slope1_scaled, RATE_SCALE)
        ELSE base_scaled + MulDiv(kink_scaled, slope1_scaled, RATE_SCALE)
               + MulDiv(util_scaled - kink_scaled, slope2_scaled, RATE_SCALE)

\* increment of do_accrue_interest:
\*   index * ir_scaled * seconds / RATE_SCALE / SECONDS_PER_YEAR  (u128).
\* With index * ir = Q * RATE_SCALE + R and Q * seconds = Q2 * YEAR + R2 the
\* value is Q2 + (R2 + R * seconds / RATE_SCALE) / YEAR, every step exact.
index_increment(index, ir_scaled, seconds) ==
    LET qr == MulDivRem(index, ir_scaled, RATE_SCALE)
        qr2 == MulDivRem(qr[1], seconds, SECONDS_PER_YEAR)
        low == MulDiv(qr[2], seconds, RATE_SCALE)
    IN  qr2[1] + ((qr2[2] + low) \div SECONDS_PER_YEAR)

do_accrue_interest_stamps_always(m, t) ==
    IF t <= m.last_accrued_ts THEN [m EXCEPT !.last_accrued_ts = t]
    ELSE [m EXCEPT !.accumulated_index =
                       @ + index_increment(@, ir_scaled_of(m), t - m.last_accrued_ts),
                   !.last_accrued_ts = t]

do_accrue_interest_skipped(m, t) == m

do_accrue_interest(m, t) ==
    IF t <= m.last_accrued_ts THEN m
    ELSE [m EXCEPT !.accumulated_index =
                       @ + index_increment(@, ir_scaled_of(m), t - m.last_accrued_ts),
                   !.last_accrued_ts = t]

\* The accounts of the market instructions, as one record.
MState == [market |-> market, market_vault |-> market_vault,
           receipts |-> receipts, mborrowers |-> mborrowers]

LNoCall ==
    [op |-> "none", user |-> "none", err |-> "Ok", amount |-> 0,
     total_owed |-> 0, principal_repaid |-> 0]

LFailed(op, u, amount, e) ==
    [LNoCall EXCEPT !.op = op, !.user = u, !.amount = amount, !.err = e]

LDone(op, u, amount) ==
    [LNoCall EXCEPT !.op = op, !.user = u, !.amount = amount]

accrue_interest_result(s, t) ==
    [st |-> [s EXCEPT !.market = do_accrue_interest(s.market, t)],
     res |-> LDone("accrue_interest", "none", 0)]

supply_result(s, u, amount, t) ==
    LET m == do_accrue_interest(s.market, t)
        fail(e) == [st |-> s, res |-> LFailed("supply", u, amount, e)]
    IN  IF s.market.paused THEN fail("Paused")
        ELSE IF amount = 0 THEN fail("InvalidAmount")
        ELSE [st |-> [s EXCEPT !.market = [m EXCEPT !.total_supply = @ + amount],
                               !.market_vault = @ + amount,
                               !.receipts[u] = @ + amount],
              res |-> LDone("supply", u, amount)]

withdraw_result(s, u, amount, t) ==
    LET m == do_accrue_interest(s.market, t)
        fail(e) == [st |-> s, res |-> LFailed("withdraw", u, amount, e)]
    IN  IF s.market.paused THEN fail("Paused")
        ELSE IF amount = 0 THEN fail("InvalidAmount")
        \* token::burn and token::transfer fail on an insufficient balance
        ELSE IF s.receipts[u] < amount THEN fail("TokenInsufficientFunds")
        ELSE IF s.market_vault < amount THEN fail("TokenInsufficientFunds")
        ELSE IF m.total_supply < amount THEN fail("InvalidAmount")
        ELSE [st |-> [s EXCEPT !.market = [m EXCEPT !.total_supply = @ - amount],
                               !.market_vault = @ - amount,
                               !.receipts[u] = @ - amount],
              res |-> LDone("withdraw", u, amount)]

\* available of borrow
borrow_available(m) == m.total_supply - m.total_borrowed

borrow_index_kept(b, amount, index) ==
    IF b.initialized THEN b.borrow_index ELSE index

\* borrower_account.borrow_index after a borrow of amount at the accrued index
borrow_index_after(b, amount, index) ==
    IF b.initialized /\ b.principal > 0
    THEN WeightedAverage(b.principal, b.borrow_index, amount, index)
    ELSE index

borrow_result(s, u, amount, t) ==
    LET m == do_accrue_interest(s.market, t)
        available == borrow_available(m)
        b == s.mborrowers[u]
        borrow_index == borrow_index_after(b, amount, m.accumulated_index)
        fail(e) == [st |-> s, res |-> LFailed("borrow", u, amount, e)]
    IN  IF s.market.paused THEN fail("Paused")
        ELSE IF amount = 0 THEN fail("InvalidAmount")
        ELSE IF amount > available THEN fail("InvalidAmount")
        ELSE IF s.market_vault < amount THEN fail("TokenInsufficientFunds")
        ELSE [st |-> [s EXCEPT !.market = [m EXCEPT !.total_borrowed = @ + amount],
                               !.market_vault = @ - amount,
                               !.mborrowers[u] =
                                   [initialized |-> TRUE,
                                    principal |-> b.principal + amount,
                                    borrow_index |-> borrow_index]],
              res |-> LDone("borrow", u, amount)]

\* market.total_borrowed after a repay that returns principal_repaid
total_borrowed_less_amount(m, amount, principal_repaid) == m.total_borrowed - amount

total_borrowed_after_repay(m, amount, principal_repaid) ==
    m.total_borrowed - principal_repaid

\* total_owed of repay
market_total_owed(b, index) == MulDiv(b.principal, index, Max(1, b.borrow_index))

\* principal_repaid of repay
principal_repaid_is_amount(b, amount, index, total_owed) ==
    IF amount >= total_owed THEN b.principal ELSE amount

market_principal_repaid(b, amount, index, total_owed) ==
    IF amount >= total_owed THEN b.principal
    ELSE MulDiv(amount, b.borrow_index, Max(1, index))

repay_result(s, u, amount, t) ==
    LET m == do_accrue_interest(s.market, t)
        b == s.mborrowers[u]
        total_owed == market_total_owed(b, m.accumulated_index)
        principal_repaid ==
            market_principal_repaid(b, amount, m.accumulated_index, total_owed)
        fail(e) == [st |-> s, res |-> LFailed("repay", u, amount, e)]
    \* the borrower account is not created by repay
    IN  IF ~b.initialized THEN fail("AccountNotInitialized")
        ELSE IF s.market.paused THEN fail("Paused")
        ELSE IF amount = 0 THEN fail("InvalidAmount")
        ELSE IF amount > total_owed THEN fail("InvalidAmount")
        ELSE IF b.principal < principal_repaid THEN fail("InvalidAmount")
        ELSE IF m.total_borrowed < principal_repaid THEN fail("InvalidAmount")
        ELSE [st |-> [s EXCEPT !.market =
                                   [m EXCEPT !.total_borrowed =
                                       total_borrowed_after_repay(m, amount,
                                                                  principal_repaid)],
                               !.market_vault = @ + amount,
                               !.mborrowers[u].principal = @ - principal_repaid],
              res |-> [LDone("repay", u, amount)
                         EXCEPT !.total_owed = total_owed,
                                !.principal_repaid = principal_repaid]]

TIMELOCK_DELAY_SECONDS == 86400

\* pause_market(paused); authorised: the signer is market.authority
pause_market_result(s, authorised, paused, t) ==
    LET m == s.market
        amount == IF paused THEN 1 ELSE 0
        fail(e) == [st |-> s, res |-> LFailed("pause_market", "none", amount, e)]
        done(mm) == [st |-> [s EXCEPT !.market = mm],
                     res |-> LDone("pause_market", "none", amount)]
    IN  IF ~authorised THEN fail("Unauthorized")
        ELSE IF ~paused /\ m.paused
        THEN done([m EXCEPT !.paused = FALSE,
                            !.pause_proposed_at = [some |-> FALSE, at |-> 0]])
        ELSE IF paused /\ ~m.paused
        THEN IF m.pause_proposed_at.some THEN fail("PauseProposalAlreadyExists")
             ELSE done([m EXCEPT !.pause_proposed_at = [some |-> TRUE, at |-> t]])
        ELSE done(m)

execute_pause_one_second_early(s, authorised, t) ==
    LET m == s.market
        proposed_at == m.pause_proposed_at.at
        elapsed == IF t >= proposed_at THEN t - proposed_at ELSE 0
        fail(e) == [st |-> s, res |-> LFailed("execute_pause", "none", 0, e)]
    IN  IF ~authorised THEN fail("Unauthorized")
        ELSE IF ~m.pause_proposed_at.some THEN fail("NoPauseProposal")
        ELSE IF elapsed < TIMELOCK_DELAY_SECONDS - 1 THEN fail("TimelockNotExpired")
        ELSE [st |-> [s EXCEPT !.market =
                          [m EXCEPT !.paused = TRUE,
                                    !.pause_proposed_at = [some |-> FALSE, at |-> 0]]],
              res |-> LDone("execute_pause", "none", 0)]

\* execute_pause
execute_pause_result(s, authorised, t) ==
    LET m == s.market
        proposed_at == m.pause_proposed_at.at
        elapsed == IF t >= proposed_at THEN t - proposed_at ELSE 0
        fail(e) == [st |-> s, res |-> LFailed("execute_pause", "none", 0, e)]
    IN  IF ~authorised THEN fail("Unauthorized")
        ELSE IF ~m.pause_proposed_at.some THEN fail("NoPauseProposal")
        ELSE IF elapsed < TIMELOCK_DELAY_SECONDS THEN fail("TimelockNotExpired")
        ELSE [st |-> [s EXCEPT !.market =
                          [m EXCEPT !.paused = TRUE,
                                    !.pause_proposed_at = [some |-> FALSE, at |-> 0]]],
              res |-> LDone("execute_pause", "none", 0)]

-----------------------------------------------------------------------------
(* lending-pool: lending_pool_usdc (lending-pool/src/lib.rs) *)

BORROW_RATE == 10
LENDER_RATE == 5
MIN_LIQUIDITY_RESERVE == 1000000

\* The accounts of the pool instructions, as one record.
PState == [pool |-> pool, pool_vault |-> pool_vault,
           pborrowers |-> pborrowers, usdc |-> usdc]

deposit_usdc_result(s, u, amount) ==
    LET fail(e) == [st |-> s, res |-> LFailed("deposit_usdc", u, amount, e)]
    IN  IF amount = 0 THEN fail("InvalidAmount")
        ELSE IF s.pool.paused THEN fail("PoolPaused")
        ELSE IF s.usdc[u] < amount THEN fail("TokenInsufficientFunds")
        ELSE [st |-> [s EXCEPT !.pool.total_liquidity = @ + amount,
                               !.pool_vault = @ + amount,
                               !.usdc[u] = @ - amount],
              res |-> LDone("deposit_usdc", u, amount)]

\* borrowable of borrow_usdc; negative where a checked_sub fails
borrowable(p) == p.total_liquidity - p.total_borrowed - MIN_LIQUIDITY_RESERVE

\* borrow_usdc; to is the owner of the token account that receives the loan.
borrow_usdc_result(s, u, to, amount, t) ==
    LET b == s.pborrowers[u]
        borrow_timestamp ==
            IF b.initialized /\ b.amount_borrowed > 0
            THEN WeightedAverage(b.amount_borrowed, b.borrow_timestamp, amount, t)
            ELSE t
        fail(e) == [st |-> s, res |-> LFailed("borrow_usdc", u, amount, e)]
    IN  IF s.pool.paused THEN fail("PoolPaused")
        ELSE IF amount = 0 THEN fail("InvalidAmount")
        ELSE IF borrowable(s.pool) < 0 THEN fail("InsufficientLiquidity")
        ELSE IF amount > borrowable(s.pool) THEN fail("InsufficientLiquidity")
        ELSE IF s.pool_vault < amount THEN fail("TokenInsufficientFunds")
        ELSE [st |-> [s EXCEPT !.pool.total_borrowed = @ + amount,
                               !.pool_vault = @ - amount,
                               !.usdc[to] = @ + amount,
                               !.pborrowers[u] =
                                   [initialized |-> TRUE,
                                    amount_borrowed |-> b.amount_borrowed + amount,
                                    borrow_timestamp |-> borrow_timestamp]],
              res |-> LDone("borrow_usdc", u, amount)]

\* interest_accrued of repay_usdc:
\*   principal * borrow_rate * seconds / 100 / SECONDS_PER_YEAR  (u128);
\* the two divisions commute, floor(floor(x / 100) / Y) = floor(floor(x / Y) / 100).
pool_interest(principal, borrow_rate, seconds) ==
    MulDiv(principal * borrow_rate, seconds, SECONDS_PER_YEAR) \div 100

\* total_owed of repay_usdc at time t
pool_total_owed(p, b, t) ==
    b.amount_borrowed + pool_interest(b.amount_borrowed, p.borrow_rate,
                                      t - b.borrow_timestamp)

\* repay_usdc.  u is the account passed as borrower, signed tells whether it
\* signed the transaction, from is the owner of the token account the
\* repayment is taken from (the transfer's authority is the borrower).
repay_usdc_result(s, u, signed, from, amount, t) ==
    LET b == s.pborrowers[u]
        seconds_elapsed == t - b.borrow_timestamp
        total_owed == pool_total_owed(s.pool, b, t)
        full == amount >= total_owed
        principal_portion == MulDiv(amount, b.amount_borrowed, total_owed)
        principal_repaid == IF full THEN b.amount_borrowed ELSE principal_portion
        time_advance == MulDiv(seconds_elapsed, principal_portion, b.amount_borrowed)
        remaining == b.amount_borrowed - principal_repaid
        borrow_timestamp ==
            IF remaining = 0 THEN t
            ELSE IF full THEN b.borrow_timestamp
            ELSE b.borrow_timestamp + time_advance
        fail(e) == [st |-> s, res |-> LFailed("repay_usdc", u, amount, e)]
    IN  IF ~signed THEN fail("AccountNotSigner")
        ELSE IF ~b.initialized THEN fail("AccountNotInitialized")
        ELSE IF s.pool.paused THEN fail("PoolPaused")
        ELSE IF amount = 0 THEN fail("InvalidAmount")
        ELSE IF b.borrow_timestamp > t THEN fail("InvalidConfig")
        ELSE IF amount > total_owed THEN fail("RepayAmountExceedsDebt")
        ELSE IF from # u THEN fail("TokenOwnerMismatch")
        ELSE IF s.usdc[from] < amount THEN fail("TokenInsufficientFunds")
        ELSE IF s.pool.total_borrowed < principal_repaid THEN fail("InvalidAmount")
        ELSE [st |-> [s EXCEPT !.pool.total_borrowed = @ - principal_repaid,
                               !.pool_vault = @ + amount,
                               !.usdc[from] = @ - amount,
                               !.pborrowers[u] =
                                   [initialized |-> TRUE,
                                    amount_borrowed |-> remaining,
                                    borrow_timestamp |-> borrow_timestamp]],
              res |-> [LDone("repay_usdc", u, amount)
                         EXCEPT !.total_owed = total_owed,
                                !.principal_repaid = principal_repaid]]

-----------------------------------------------------------------------------
(* forge-crucibles: leveraged positions (lvf.rs) *)

MIN_LEVERAGE_COLLATERAL == 1000
SLOTS_PER_YEAR == 78840000
MAX_LEVERAGE_BPS == 200
MIN_LEVERAGE_BPS == 100
MAX_CONFIDENCE_BPS == 500
MAX_STALENESS_SECONDS == 300
MAX_PRICE_CHANGE_BPS == 5000
LIQUIDATION_THRESHOLD_BPS == 8500
LIQUIDATION_BONUS_BPS == 500
MAX_SLOTS == 788400000

\* forge-crucibles-inferno, lp.rs
INFERNO_LIQUIDATION_THRESHOLD_BPS == 9000

\* MIN_PRICE_USD = 0.001 and MAX_PRICE_USD = 1_000_000.0 as f64
MIN_PRICE_USD == [m |-> <<427388, 686018, 4611>>, e |-> -62]
MAX_PRICE_USD == f64_from(Digits(1000000))

\* value * 10^expo in f64: multiplied by powi(expo) or divided by powi(-expo)
f64_scaled(value, expo) ==
    IF expo >= 0 THEN f64_mul(f64_from(Digits(value)), powi10(expo))
    ELSE f64_div(f64_from(Digits(value)), powi10(-expo))

\* The f64 part of get_oracle_price on the fields price > 0, expo, conf of the
\* price account: confidence_bps and price_scaled as u64 digit sequences, and
\* the comparison of price_usd with the absolute bounds.
reading_of(conf_price_f64, price_usd) ==
    [confidence_bps |->
        f64_as_u64(f64_mul(f64_div(conf_price_f64, price_usd),
                           f64_from(Digits(10000)))),
     in_bounds |-> ~f64_lt(price_usd, MIN_PRICE_USD)
                     /\ ~f64_lt(MAX_PRICE_USD, price_usd),
     price_scaled |->
        f64_as_u64(f64_mul(price_usd, f64_from(Digits(PRICE_SCALE_FACTOR))))]

oracle_reading(price, expo, conf) ==
    reading_of(f64_scaled(conf, expo), f64_scaled(price, expo))

\* The account data the price feed can hold in the model.
FeedData ==
    {[price |-> q.price, expo |-> q.expo, conf |-> q.conf] :
        q \in Quotes \cup OpenQuotes}

\* oracle_reading, computed once for each of them.
Readings ==
    LET rs == {<<d, oracle_reading(d.price, d.expo, d.conf)>> : d \in FeedData}
    IN  [d \in FeedData |-> (CHOOSE r \in rs : r[1] = d)[2]]

\* The price account holding quote q, published at time t, together with what
\* the f64 arithmetic of get_oracle_price reads out of it.
PriceAccount(q, t) ==
    [price |-> q.price, expo |-> q.expo, conf |-> q.conf, publish_time |-> t,
     reading |-> Readings[[price |-> q.price, expo |-> q.expo, conf |-> q.conf]]]

\* The oracle account passed to an instruction: Some(price feed) or None.
OracleAccount(some, feed) ==
    [some |-> some, price |-> feed.price, expo |-> feed.expo, conf |-> feed.conf,
     publish_time |-> feed.publish_time, reading |-> feed.reading]

get_oracle_price_of_one_dollar(c, o, t) ==
    [ok |-> TRUE, err |-> "Ok", price |-> PRICE_SCALE_FACTOR]

\* get_oracle_price for crucible c, oracle account o and unix time t; a
\* provided account is the feed c.oracle names, holding a valid PriceUpdateV2.
get_oracle_price(c, o, t) ==
    LET age == IF t >= o.publish_time THEN t - o.publish_time ELSE 0
        r == o.reading
        fail(e) == [ok |-> FALSE, err |-> e, price |-> 0]
    IN  IF c.oracle = "None" THEN fail("InvalidOraclePrice")
        ELSE IF ~o.some THEN fail("InvalidOraclePrice")
        ELSE IF o.price <= 0 THEN fail("InvalidOraclePrice")
        ELSE IF Less(Digits(MAX_CONFIDENCE_BPS), r.confidence_bps)
             THEN fail("InvalidOraclePrice")
        ELSE IF age > MAX_STALENESS_SECONDS THEN fail("StaleOraclePrice")
        ELSE IF ~r.in_bounds THEN fail("InvalidOraclePrice")
        ELSE IF Less(r.price_scaled, Digits(1000)) THEN fail("InvalidOraclePrice")
        ELSE [ok |-> TRUE, err |-> "Ok", price |-> Number(r.price_scaled)]

\* growth of calculate_lvf_exchange_rate before the minimum is applied:
\*   base_rate * effective_apy * years_elapsed / (100 * 1_000_000 * 1_000_000)
\* with base_rate = 1_000_000, that is effective_apy * years_elapsed / 10^8.
leverage_multiplier(collateral, borrowed_usdc) ==
    MulDiv(borrowed_usdc, 100, collateral) + 100

leveraged_apy(c, collateral, borrowed_usdc) ==
    MulDiv(c.fee_rate, leverage_multiplier(collateral, borrowed_usdc), 100)

borrow_cost(collateral, borrowed_usdc) ==
    (10 * (leverage_multiplier(collateral, borrowed_usdc) - 100)) \div 100

\* leveraged_apy.checked_sub(borrow_cost).unwrap_or(0)
effective_apy(c, collateral, borrowed_usdc) ==
    IF leveraged_apy(c, collateral, borrowed_usdc) >= borrow_cost(collateral, borrowed_usdc)
    THEN leveraged_apy(c, collateral, borrowed_usdc) - borrow_cost(collateral, borrowed_usdc)
    ELSE 0

lvf_growth(c, collateral, borrowed_usdc, slots_elapsed) ==
    LET years_elapsed == MulDiv(slots_elapsed, 1000000, SLOTS_PER_YEAR)
    IN  MulDiv(effective_apy(c, collateral, borrowed_usdc), years_elapsed, 100000000)

calculate_lvf_exchange_rate(c, collateral, borrowed_usdc, slots_elapsed) ==
    IF collateral = 0 THEN [ok |-> FALSE, err |-> "InvalidLeverage", rate |-> 0]
    ELSE IF slots_elapsed > MAX_SLOTS
    THEN [ok |-> FALSE, err |-> "InvalidLeverage", rate |-> 0]
    ELSE [ok |-> TRUE, err |-> "Ok",
          rate |-> 1000000
                     + Max(lvf_growth(c, collateral, borrowed_usdc, slots_elapsed), 1)]

NoPosition ==
    [initialized |-> FALSE, owner |-> "none", collateral |-> 0, borrowed_usdc |-> 0,
     leverage_factor |-> 0, entry_price |-> 0, current_value |-> 0,
     yield_earned |-> 0, is_open |-> FALSE, created_at |-> 0]

\* The accounts of the leveraged-position instructions, as one record.
VState == [crucible |-> crucible, vault_amount |-> vault_amount,
           treasury_amount |-> treasury_amount, positions |-> positions,
           base_tokens |-> base_tokens, pool |-> pool, pool_vault |-> pool_vault,
           pborrowers |-> pborrowers, usdc |-> usdc]

\* The accounts handed to a lending-pool CPI, and their state after it.
PoolOf(s) == [pool |-> s.pool, pool_vault |-> s.pool_vault,
              pborrowers |-> s.pborrowers, usdc |-> s.usdc]

WithPool(s, p) == [s EXCEPT !.pool = p.pool, !.pool_vault = p.pool_vault,
                            !.pborrowers = p.pborrowers, !.usdc = p.usdc]

position_is_open_always(pos) == TRUE

\* require!(position.is_open, CrucibleError::PositionNotOpen)
position_is_open(pos) == pos.is_open

VNoCall ==
    [op |-> "none", user |-> "none", err |-> "Ok", amount |-> 0, leverage |-> 0,
     ltv_bps |-> 0, total_debt |-> 0, repay_amount |-> 0, pool_owed |-> 0,
     payer_usdc |-> 0, paid_out |-> 0, yield_earned |-> 0, collateral |-> 0,
     principal_fee |-> 0, slots_elapsed |-> 0, entry_price |-> 0, price |-> 0,
     oracle_some |-> FALSE]

VFailed(op, u, amount, e) ==
    [VNoCall EXCEPT !.op = op, !.user = u, !.amount = amount, !.err = e]

\* open_leveraged_position(collateral_amount, leverage_factor) by u at unix
\* time t and slot sl.  The position account is created by the instruction
\* (init), so a second open for the same user and crucible is refused.
open_leveraged_position_result(s, u, collateral_amount, leverage_factor, o, t, sl) ==
    LET p == get_oracle_price(s.crucible, o, t)
        collateral_value_usdc == MulDiv(collateral_amount, p.price, PRICE_SCALE_FACTOR)
        borrowed_usdc == MulDiv(collateral_value_usdc, leverage_factor - 100, 100)
        cpi == borrow_usdc_result(PoolOf(s), u, u, borrowed_usdc, t)
        s1 == IF borrowed_usdc > 0 THEN WithPool(s, cpi.st) ELSE s
        fail(e) == [st |-> s,
                    res |-> [VFailed("open_leveraged_position", u, collateral_amount, e)
                               EXCEPT !.leverage = leverage_factor]]
    IN  IF s.positions[u].initialized THEN fail("AccountAlreadyInUse")
        ELSE IF protocol_paused(s.crucible) THEN fail("ProtocolPaused")
        ELSE IF collateral_amount < MIN_LEVERAGE_COLLATERAL THEN fail("InvalidAmount")
        ELSE IF leverage_factor > MAX_LEVERAGE_BPS THEN fail("InvalidLeverage")
        ELSE IF leverage_factor < MIN_LEVERAGE_BPS THEN fail("InvalidLeverage")
        ELSE IF ~p.ok THEN fail(p.err)
        ELSE IF s.base_tokens[u] < collateral_amount THEN fail("TokenInsufficientFunds")
        ELSE IF borrowed_usdc > 0 /\ cpi.res.err # "Ok" THEN fail(cpi.res.err)
        ELSE [st |-> [s1 EXCEPT
                        !.vault_amount = @ + collateral_amount,
                        !.base_tokens[u] = @ - collateral_amount,
                        !.positions[u] =
                            [initialized |-> TRUE, owner |-> u,
                             collateral |-> collateral_amount,
                             borrowed_usdc |-> borrowed_usdc,
                             leverage_factor |-> leverage_factor,
                             entry_price |-> p.price,
                             current_value |-> collateral_value_usdc,
                             yield_earned |-> 0, is_open |-> TRUE,
                             created_at |-> sl],
                        !.crucible.total_leveraged_positions = @ + 1],
              res |-> [VNoCall EXCEPT
                         !.op = "open_leveraged_position", !.user = u,
                         !.amount = collateral_amount, !.leverage = leverage_factor,
                         !.collateral = collateral_amount,
                         !.total_debt = borrowed_usdc,
                         !.entry_price = p.price, !.price = p.price]]

\* close_leveraged_position(max_slippage_bps) by u at unix time t and slot sl.
\* The position account is the one derived from the signer, so only the owner
\* can pass it.  res.paid_out is tokens_after_fee, the transfer to the user.
close_leveraged_position_result(s, u, max_slippage_bps, o, t, sl) ==
    LET pos == s.positions[u]
        slots_elapsed == sl - pos.created_at
        seconds_elapsed == MulDiv(slots_elapsed, 400, 1000)
        interest == pool_interest(pos.borrowed_usdc, s.pool.borrow_rate, seconds_elapsed)
        repay_amount == pos.borrowed_usdc + interest
        cpi == repay_usdc_result(PoolOf(s), u, TRUE, u, repay_amount, t)
        s1 == IF pos.borrowed_usdc > 0 THEN WithPool(s, cpi.st) ELSE s
        p == get_oracle_price(s.crucible, o, t)
        price_change_bps ==
            IF p.price > pos.entry_price
            THEN MulDiv(p.price - pos.entry_price, 10000, pos.entry_price)
            ELSE MulDiv(pos.entry_price - p.price, 10000, pos.entry_price)
        current_position_value_usdc == MulDiv(pos.collateral, p.price, 1000000)
        entry_position_value_usdc == MulDiv(pos.collateral, pos.entry_price, 1000000)
        value_diff ==
            IF current_position_value_usdc > entry_position_value_usdc
            THEN current_position_value_usdc - entry_position_value_usdc
            ELSE entry_position_value_usdc - current_position_value_usdc
        slippage_bps == MulDiv(value_diff, 10000, entry_position_value_usdc)
        rate == calculate_lvf_exchange_rate(s.crucible, pos.collateral,
                                            pos.borrowed_usdc, slots_elapsed)
        tokens_to_return == MulDiv(pos.collateral, rate.rate, 1000000)
        principal_fee == (pos.collateral * 2) \div 100
        yield_earned == tokens_to_return - pos.collateral
        yield_fee == (yield_earned * 10) \div 100
        total_fee == principal_fee + yield_fee
        vault_fee_share == MulDiv(total_fee, 80, 100)
        protocol_fee_share == total_fee - vault_fee_share
        tokens_after_fee == tokens_to_return - total_fee
        expected_min_tokens ==
            MulDiv(entry_position_value_usdc, 1000000, pos.entry_price)
        token_slippage_bps ==
            IF tokens_after_fee < expected_min_tokens
            THEN MulDiv(expected_min_tokens - tokens_after_fee, 10000,
                        Max(expected_min_tokens, 1))
            ELSE 0
        fail(e) == [st |-> s,
                    res |-> VFailed("close_leveraged_position", u, max_slippage_bps, e)]
    IN  IF ~pos.initialized THEN fail("AccountNotInitialized")
        ELSE IF protocol_paused(s.crucible) THEN fail("ProtocolPaused")
        ELSE IF max_slippage_bps > 10000 THEN fail("InvalidAmount")
        ELSE IF ~position_is_open(pos) THEN fail("PositionNotOpen")
        ELSE IF pos.owner # u THEN fail("Unauthorized")
        ELSE IF pos.borrowed_usdc > 0 /\ pos.created_at > sl THEN fail("InvalidLeverage")
        ELSE IF pos.borrowed_usdc > 0 /\ cpi.res.err # "Ok" THEN fail(cpi.res.err)
        ELSE IF ~p.ok THEN fail(p.err)
        ELSE IF price_change_bps > MAX_PRICE_CHANGE_BPS THEN fail("InvalidOraclePrice")
        ELSE IF entry_position_value_usdc = 0 THEN fail("InvalidAmount")
        ELSE IF slippage_bps > max_slippage_bps THEN fail("SlippageExceeded")
        ELSE IF pos.created_at > sl THEN fail("InvalidLeverage")
        ELSE IF ~rate.ok THEN fail(rate.err)
        ELSE IF tokens_to_return < pos.collateral THEN fail("InvalidAmount")
        ELSE IF tokens_after_fee < 0 THEN fail("InvalidAmount")
        ELSE IF token_slippage_bps > max_slippage_bps THEN fail("SlippageExceeded")
        ELSE IF s.vault_amount < protocol_fee_share + tokens_after_fee
        THEN fail("TokenInsufficientFunds")
        ELSE IF s.crucible.total_leveraged_positions = 0 THEN fail("ArithmeticOverflow")
        ELSE [st |-> [s1 EXCEPT
                        !.crucible.total_fees_accrued = @ + vault_fee_share,
                        !.crucible.total_leveraged_positions = @ - 1,
                        !.vault_amount = @ - protocol_fee_share - tokens_after_fee,
                        !.treasury_amount = @ + protocol_fee_share,
                        !.base_tokens[u] = @ + tokens_after_fee,
                        !.positions[u].is_open = FALSE,
                        !.positions[u].yield_earned = yield_earned],
              res |-> [VNoCall EXCEPT
                         !.op = "close_leveraged_position", !.user = u,
                         !.amount = max_slippage_bps,
                         !.leverage = pos.leverage_factor,
                         !.collateral = pos.collateral,
                         !.principal_fee = principal_fee,
                         !.repay_amount = IF pos.borrowed_usdc > 0
                                          THEN repay_amount ELSE 0,
                         !.paid_out = tokens_after_fee,
                         !.yield_earned = yield_earned,
                         !.slots_elapsed = slots_elapsed,
                         !.entry_price = pos.entry_price, !.price = p.price]]

\* total_debt of health_check and liquidate_position at slot sl:
\*   rate_decimal = 10 * 1_000_000 / 100 = 100_000,
\*   interest = borrowed_usdc * rate_decimal * years_elapsed / 10^12,
\* that is borrowed_usdc * years_elapsed / 10^7.
lvf_total_debt(pos, sl) ==
    LET years_elapsed == MulDiv(sl - pos.created_at, 1000000, SLOTS_PER_YEAR)
    IN  pos.borrowed_usdc + MulDiv(pos.borrowed_usdc, years_elapsed, 10000000)

\* ltv_bps of health_check and liquidate_position; collateral_value_usdc > 0
lvf_ltv_bps(pos, collateral_value_usdc, sl) ==
    MulDiv(lvf_total_debt(pos, sl), 10000, collateral_value_usdc)

\* health_check on the position of owner
health_check_result(s, owner, o, t, sl) ==
    LET pos == s.positions[owner]
        p == get_oracle_price(s.crucible, o, t)
        collateral_value_usdc == MulDiv(pos.collateral, p.price, 1000000)
        fail(e) == [st |-> s, res |-> VFailed("health_check", owner, 0, e)]
    IN  IF ~pos.initialized THEN fail("AccountNotInitialized")
        ELSE IF ~position_is_open(pos) THEN fail("PositionNotOpen")
        ELSE IF ~p.ok THEN fail(p.err)
        ELSE IF pos.created_at > sl THEN fail("InvalidLeverage")
        ELSE IF collateral_value_usdc = 0 THEN fail("InvalidHealthCheck")
        ELSE [st |-> s,
              res |-> [VNoCall EXCEPT
                         !.op = "health_check", !.user = owner,
                         !.collateral = pos.collateral,
                         !.total_debt = lvf_total_debt(pos, sl),
                         !.ltv_bps = lvf_ltv_bps(pos, collateral_value_usdc, sl),
                         !.entry_price = pos.entry_price, !.price = p.price]]

\* the threshold requirement of liquidate_position
liquidation_threshold_passed(ltv_bps) == ltv_bps > LIQUIDATION_THRESHOLD_BPS

\* the threshold requirement of liquidate_inferno_lp_position
inferno_liquidation_threshold_passed(ltv_bps) ==
    ltv_bps >= INFERNO_LIQUIDATION_THRESHOLD_BPS

\* liquidate_position by liq on the position of owner, at unix time t and slot
\* sl.  position_owner is the account the caller passes as position_owner (it
\* is not checked against the position); co_signed tells whether that account
\* signed the transaction besides the liquidator.  The repayment is a CPI to
\* repay_usdc with borrower = position_owner and the liquidator's USDC account
\* as the source; the borrower account passed must be the one derived from
\* position.owner, and repay_usdc derives it from its borrower.
liquidate_position_result(s, liq, owner, position_owner, co_signed, o, t, sl) ==
    LET pos == s.positions[owner]
        p == get_oracle_price(s.crucible, o, t)
        collateral_value_usdc == MulDiv(pos.collateral, p.price, 1000000)
        total_debt == lvf_total_debt(pos, sl)
        ltv_bps == lvf_ltv_bps(pos, collateral_value_usdc, sl)
        liquidation_bonus == MulDiv(total_debt, LIQUIDATION_BONUS_BPS, 10000)
        total_repay_amount == total_debt + liquidation_bonus
        signed == (position_owner = liq) \/ co_signed
        cpi == IF signed /\ position_owner # pos.owner
               THEN [st |-> PoolOf(s),
                     res |-> LFailed("repay_usdc", position_owner,
                                     total_repay_amount, "ConstraintSeeds")]
               ELSE repay_usdc_result(PoolOf(s), position_owner, signed, liq,
                                      total_repay_amount, t)
        collateral_to_seize == MulDiv(total_debt, 1000000, p.price)
        bonus_collateral == MulDiv(liquidation_bonus, 1000000, p.price)
        total_collateral_seized == collateral_to_seize + bonus_collateral
        seized == IF total_collateral_seized > pos.collateral
                  THEN pos.collateral ELSE total_collateral_seized
        seen == [VNoCall EXCEPT
                   !.op = "liquidate_position", !.user = liq,
                   !.collateral = pos.collateral,
                   !.total_debt = total_debt, !.ltv_bps = ltv_bps,
                   !.repay_amount = total_repay_amount,
                   !.pool_owed = pool_total_owed(s.pool, s.pborrowers[pos.owner], t),
                   !.payer_usdc = s.usdc[liq],
                   !.entry_price = pos.entry_price, !.price = p.price]
        fail(e) == [st |-> s, res |-> VFailed("liquidate_position", liq, 0, e)]
    IN  IF ~pos.initialized THEN fail("AccountNotInitialized")
        ELSE IF protocol_paused(s.crucible) THEN fail("ProtocolPaused")
        ELSE IF ~position_is_open(pos) THEN fail("PositionNotOpen")
        ELSE IF ~p.ok THEN fail(p.err)
        ELSE IF pos.created_at > sl THEN fail("InvalidLeverage")
        ELSE IF collateral_value_usdc = 0 THEN fail("InvalidHealthCheck")
        ELSE IF ~liquidation_threshold_passed(ltv_bps)
        THEN [st |-> s, res |-> [seen EXCEPT !.err = "PositionNotLiquidatable",
                                             !.repay_amount = 0]]
        ELSE IF cpi.res.err # "Ok" THEN [st |-> s, res |-> [seen EXCEPT !.err = cpi.res.err]]
        ELSE IF s.vault_amount < seized
        THEN [st |-> s, res |-> [seen EXCEPT !.err = "TokenInsufficientFunds"]]
        ELSE IF s.crucible.total_leveraged_positions = 0
        THEN [st |-> s, res |-> [seen EXCEPT !.err = "InvalidAmount"]]
        ELSE [st |-> [WithPool(s, cpi.st) EXCEPT
                        !.vault_amount = @ - seized,
                        !.base_tokens[liq] = @ + seized,
                        !.positions[owner].is_open = FALSE,
                        !.positions[owner].collateral = @ - seized,
                        !.positions[owner].borrowed_usdc = 0,
                        !.crucible.total_leveraged_positions = @ - 1],
              res |-> [seen EXCEPT !.paid_out = seized]]

-----------------------------------------------------------------------------
(* forge-crucibles-inferno: LP positions (lp.rs) *)

PRICE_SCALE == 1000000
LAMPORTS_PER_SOL == 1000000000
OPEN_FEE_BPS == 100
MIN_LP_BASE_AMOUNT == 1000
MIN_LP_USDC_AMOUNT == 1000
MAX_LP_BASE_AMOUNT == <<0, 0, 0, 1>>
MAX_LP_USDC_AMOUNT == <<0, 0, 1000>>

Min(a, b) == IF a <= b THEN a ELSE b

NoInfernoPosition ==
    [initialized |-> FALSE, position_id |-> 0, owner |-> "none", base_amount |-> 0,
     usdc_amount |-> 0, borrowed_usdc |-> 0, leverage_factor |-> 0,
     entry_price |-> 0, created_at |-> 0, is_open |-> FALSE]

\* initialize_inferno_crucible, with the token accounts around the crucible
NewInferno(oracle_key) ==
    [total_lp_token_supply |-> 0, total_lp_positions |-> 0,
     exchange_rate |-> 1000000, last_update_slot |-> 0, paused |-> FALSE,
     expected_vault_balance |-> 0, expected_usdc_vault_balance |-> 0,
     oracle |-> oracle_key, total_fees_accrued |-> 0,
     base_vault |-> 0, usdc_vault |-> 0, treasury_base |-> 0, treasury_usdc |-> 0,
     base |-> [u \in Users |-> InfernoBase],
     usdc |-> [u \in Users |-> InitialUsdc],
     lp |-> [u \in Users |-> 0],
     positions |-> [u \in Users |-> NoInfernoPosition]]

INoCall ==
    [op |-> "none", user |-> "none", err |-> "Ok", amount |-> 0,
     base_amount |-> 0, usdc_amount |-> 0, leverage |-> 0, max_slippage_bps |-> 0,
     oracle_some |-> FALSE, position_id |-> 0]

\* update_lp_exchange_rate
update_lp_exchange_rate(c, base_token_price) ==
    LET base_value == MulDiv(c.expected_vault_balance, base_token_price,
                             LAMPORTS_PER_SOL)
    IN  IF c.total_lp_token_supply = 0 THEN [c EXCEPT !.exchange_rate = PRICE_SCALE]
        ELSE IF base_value = 0 THEN [c EXCEPT !.exchange_rate = PRICE_SCALE]
        ELSE [c EXCEPT !.exchange_rate =
                  MulDiv(c.expected_usdc_vault_balance, PRICE_SCALE, base_value)]

\* min(n, a * b / c) for c > 0 and a quotient that may exceed the integers of
\* the model: n <= a * b / c exactly if ceil(n * c / b) <= a.
MinWithQuotient(n, a, b, c) ==
    LET qr == MulDivRem(n, c, b)
        up == IF qr[2] > 0 THEN qr[1] + 1 ELSE qr[1]
    IN  IF up <= a THEN n ELSE MulDiv(a, b, c)

expected_borrowed_usdc_as_supplied(total_position_value, borrowed_usdc, leverage_factor) ==
    borrowed_usdc

\* expected_borrowed_usdc of open_inferno_lp_position, for
\* borrowed_usdc <= total_position_value and leverage_factor >= 100
expected_borrowed_usdc(total_position_value, borrowed_usdc, leverage_factor) ==
    MulDiv(total_position_value - borrowed_usdc, leverage_factor - 100, 100)

\* open_inferno_lp_position by user u; s is the inferno record, o the oracle
\* account passed, t the unix time and sl the slot.
open_inferno_lp_position_result(s, u, base_amount, usdc_amount, borrowed_usdc, leverage_factor, max_slippage_bps, o, t, sl) ==
    LET p == get_oracle_price(s, o, t)
        base_token_price == p.price
        base_value == MulDiv(base_amount, base_token_price, LAMPORTS_PER_SOL)
        usdc_value == usdc_amount
        value_diff == IF base_value > usdc_value THEN base_value - usdc_value
                      ELSE usdc_value - base_value
        denominator == Max(base_value, usdc_value)
        slippage_bps == MulDiv(value_diff, 10000, denominator)
        total_position_value == base_value + usdc_value
        open_fee_usdc == MulDiv(total_position_value, OPEN_FEE_BPS, 10000)
        fee_base_amount ==
            MulDiv(MulDiv(open_fee_usdc, base_amount, total_position_value),
                   PRICE_SCALE, base_token_price)
        fee_usdc_amount == MulDiv(open_fee_usdc, usdc_amount, total_position_value)
        vault_fee_base == MulDiv(fee_base_amount, 80, 100)
        vault_fee_usdc == MulDiv(fee_usdc_amount, 80, 100)
        protocol_fee_base == fee_base_amount - vault_fee_base
        protocol_fee_usdc == fee_usdc_amount - vault_fee_usdc
        net_base_amount == base_amount - (vault_fee_base + protocol_fee_base)
        net_usdc_amount == usdc_amount - (vault_fee_usdc + protocol_fee_usdc)
        exchange_rate == IF s.exchange_rate = 0 THEN PRICE_SCALE ELSE s.exchange_rate
        adjusted_price == MulDiv(base_token_price, exchange_rate, PRICE_SCALE)
        lp_tokens_to_mint ==
            MinWithQuotient(net_base_amount, net_usdc_amount, LAMPORTS_PER_SOL,
                            adjusted_price)
        position_id == s.total_lp_positions + 1
        res == [INoCall EXCEPT !.op = "open_inferno_lp_position", !.user = u,
                               !.amount = borrowed_usdc,
                               !.base_amount = base_amount,
                               !.usdc_amount = usdc_amount,
                               !.leverage = leverage_factor,
                               !.max_slippage_bps = max_slippage_bps]
        fail(e) == [st |-> s, res |-> [res EXCEPT !.err = e]]
        moved == [s EXCEPT
                    !.base[u] = @ - base_amount,
                    !.base_vault = @ + net_base_amount + vault_fee_base,
                    !.treasury_base = @ + protocol_fee_base,
                    !.usdc[u] = @ - usdc_amount,
                    !.usdc_vault = @ + net_usdc_amount + vault_fee_usdc,
                    !.treasury_usdc = @ + protocol_fee_usdc,
                    !.lp[u] = @ + lp_tokens_to_mint,
                    !.positions[u] =
                        [initialized |-> TRUE, position_id |-> position_id,
                         owner |-> u, base_amount |-> net_base_amount,
                         usdc_amount |-> net_usdc_amount,
                         borrowed_usdc |-> borrowed_usdc,
                         leverage_factor |-> leverage_factor,
                         entry_price |-> base_token_price,
                         created_at |-> sl, is_open |-> TRUE],
                    !.total_lp_positions = position_id,
                    !.expected_vault_balance = @ + net_base_amount + vault_fee_base,
                    !.expected_usdc_vault_balance = @ + net_usdc_amount + vault_fee_usdc,
                    !.total_lp_token_supply = @ + lp_tokens_to_mint,
                    !.total_fees_accrued = @ + vault_fee_base]
    \* the position account is created by the instruction (init)
    IN  IF s.positions[u].initialized THEN fail("AccountAlreadyInUse")
        ELSE IF s.paused THEN fail("ProtocolPaused")
        ELSE IF \/ max_slippage_bps > 10000
                \/ base_amount < MIN_LP_BASE_AMOUNT
                \/ Less(MAX_LP_BASE_AMOUNT, Digits(base_amount))
                \/ usdc_amount < MIN_LP_USDC_AMOUNT
                \/ Less(MAX_LP_USDC_AMOUNT, Digits(usdc_amount))
             THEN fail("InvalidAmount")
        ELSE IF leverage_factor > MAX_LEVERAGE_BPS \/ leverage_factor < MIN_LEVERAGE_BPS
             THEN fail("InvalidLeverage")
        ELSE IF ~p.ok THEN fail(p.err)
        ELSE IF denominator = 0 THEN fail("InvalidAmount")
        ELSE IF slippage_bps > max_slippage_bps THEN fail("SlippageExceeded")
        ELSE IF borrowed_usdc > total_position_value THEN fail("InvalidLeverage")
        ELSE IF borrowed_usdc # expected_borrowed_usdc(total_position_value,
                                     borrowed_usdc, leverage_factor)
             THEN fail("InvalidLeverage")
        ELSE IF net_base_amount < 0 \/ net_usdc_amount < 0
             THEN fail("ArithmeticOverflow")
        ELSE IF s.base[u] < base_amount \/ s.usdc[u] < usdc_amount
             THEN fail("TokenInsufficientFunds")
        ELSE IF adjusted_price = 0 THEN fail("InvalidAmount")
        ELSE [st |-> [update_lp_exchange_rate(moved, base_token_price)
                         EXCEPT !.last_update_slot = sl],
              res |-> [res EXCEPT !.position_id = position_id]]

CLOSE_FEE_PRINCIPAL_BPS == 200
CLOSE_FEE_YIELD_BPS == 1000

\* The accounts of close_inferno_lp_position: the inferno crucible with its
\* token accounts, and the lending pool the loan is repaid to.  The users'
\* USDC token accounts are s.inf.usdc.
InfernoPool(s) == [pool |-> s.pool, pool_vault |-> s.pool_vault,
                   pborrowers |-> s.pborrowers, usdc |-> s.inf.usdc]

WithInfernoPool(s, p) == [s EXCEPT !.pool = p.pool, !.pool_vault = p.pool_vault,
                                   !.pborrowers = p.pborrowers,
                                   !.inf.usdc = p.usdc]

ICNoCall ==
    [op |-> "none", user |-> "none", owner |-> "none", err |-> "Ok",
     max_slippage_bps |-> 0, oracle_some |-> FALSE, was_open |-> FALSE,
     ltv_bps |-> 0, usdc_amount |-> 0, borrowed_usdc |-> 0, repay_amount |-> 0,
     usdc_to_return |-> 0, protocol_fee_usdc |-> 0, usdc_vault_out |-> 0]

ltv_of(pos, p, total_value) ==
    IF ~p.ok THEN [ok |-> FALSE, err |-> p.err, ltv_bps |-> 0]
    ELSE IF total_value = 0 THEN [ok |-> FALSE, err |-> "InvalidAmount", ltv_bps |-> 0]
    ELSE [ok |-> TRUE, err |-> "Ok",
          ltv_bps |-> MulDiv(pos.borrowed_usdc, 10000, total_value)]

ltv_at(pos, p) ==
    ltv_of(pos, p, MulDiv(pos.base_amount, p.price, LAMPORTS_PER_SOL) + pos.usdc_amount)

\* calculate_ltv_bps; total_value = 0 is InvalidAmount
calculate_ltv_bps(c, pos, o, t) == ltv_at(pos, get_oracle_price(c, o, t))

position_owner_is_anyone(pos, user) == TRUE

\* constraint = position.owner == user.key() @ Unauthorized of
\* CloseInfernoLPPosition, and the same require! of close_inferno_lp_position
position_owner_is(pos, user) == pos.owner = user

\* The account validation of CloseInfernoLPPosition: user signs, owner is the
\* user whose position account is passed, ba the user whose BorrowerAccount
\* is passed.
close_inferno_accounts(s, user, owner, ba) ==
    IF ~s.inf.positions[owner].initialized THEN "AccountNotInitialized"
    ELSE IF ~position_owner_is(s.inf.positions[owner], user) THEN "Unauthorized"
    ELSE IF ~s.pborrowers[ba].initialized THEN "AccountNotInitialized"
    ELSE "Ok"

\* close_inferno_lp_position from the transfers on: the vaults pay the user
\* and the treasuries, the loan is repaid through lending_pool_usdc, the LP
\* tokens are burned and the crucible is updated.
close_inferno_settle(s, res0, user, owner, ba, price, base_to_return, usdc_to_return, protocol_fee_base, protocol_fee_usdc, vault_fee_base, repay_amount, t, sl) ==
    LET c == s.inf
        usdc_to_user == usdc_to_return + repay_amount
        base_vault_out == base_to_return + protocol_fee_base
        usdc_vault_out == usdc_to_return + protocol_fee_usdc + repay_amount
        lp_burned == c.lp[user]
        res == [res0 EXCEPT !.repay_amount = repay_amount,
                            !.usdc_to_return = usdc_to_return,
                            !.protocol_fee_usdc = protocol_fee_usdc,
                            !.usdc_vault_out = usdc_vault_out]
        fail(e) == [st |-> s, res |-> [res EXCEPT !.err = e]]
        paid == [s EXCEPT
                    !.inf.base_vault = @ - base_vault_out,
                    !.inf.base[user] = @ + base_to_return,
                    !.inf.treasury_base = @ + protocol_fee_base,
                    !.inf.usdc_vault = @ - usdc_vault_out,
                    !.inf.usdc[user] = @ + usdc_to_user,
                    !.inf.treasury_usdc = @ + protocol_fee_usdc]
        \* lending_pool_usdc::cpi::repay_usdc, borrower = user, signed
        cpi == repay_usdc_result(InfernoPool(paid), user, TRUE, user, repay_amount, t)
        repaid == IF repay_amount > 0 THEN WithInfernoPool(paid, cpi.st) ELSE paid
        booked == [repaid.inf EXCEPT
                    !.lp[user] = 0,
                    !.expected_vault_balance = @ - base_vault_out,
                    !.expected_usdc_vault_balance = @ - usdc_vault_out,
                    !.total_lp_token_supply = @ - lp_burned,
                    !.total_fees_accrued = @ + vault_fee_base,
                    !.positions[owner].is_open = FALSE]
    IN  IF c.base_vault < base_to_return THEN fail("TokenInsufficientFunds")
        ELSE IF c.usdc_vault < usdc_to_user THEN fail("TokenInsufficientFunds")
        ELSE IF c.base_vault < base_vault_out \/ c.usdc_vault < usdc_vault_out
             THEN fail("TokenInsufficientFunds")
        ELSE IF repay_amount > 0 /\ ba # user THEN fail("ConstraintSeeds")
        ELSE IF repay_amount > 0 /\ cpi.res.err # "Ok" THEN fail(cpi.res.err)
        ELSE IF \/ c.expected_vault_balance < base_vault_out
                \/ c.expected_usdc_vault_balance < usdc_vault_out
                \/ c.total_lp_token_supply < lp_burned
             THEN fail("InvalidAmount")
        ELSE [st |-> [repaid EXCEPT !.inf =
                         [update_lp_exchange_rate(booked, price)
                             EXCEPT !.last_update_slot = sl]],
              res |-> res]

\* The shares of the fee and what is returned, then calculate_total_owed for
\* a position with borrowed_usdc > 0.
close_inferno_shares(s, res0, user, owner, ba, price, fee_base_amount, fee_usdc_amount, t, sl) ==
    LET position == s.inf.positions[owner]
        borrower_account == s.pborrowers[ba]
        vault_fee_base == MulDiv(fee_base_amount, 80, 100)
        vault_fee_usdc == MulDiv(fee_usdc_amount, 80, 100)
    IN  IF position.borrowed_usdc > 0 /\ borrower_account.borrow_timestamp > t
        THEN IF s.inf.base_vault
                  < position.base_amount - Min(fee_base_amount, position.base_amount)
             THEN [st |-> s, res |-> [res0 EXCEPT !.err = "TokenInsufficientFunds"]]
             ELSE [st |-> s, res |-> [res0 EXCEPT !.err = "InvalidConfig"]]
        ELSE close_inferno_settle(s, res0, user, owner, ba, price,
                 position.base_amount - Min(fee_base_amount, position.base_amount),
                 position.usdc_amount - Min(fee_usdc_amount, position.usdc_amount),
                 fee_base_amount - vault_fee_base,
                 fee_usdc_amount - vault_fee_usdc,
                 vault_fee_base,
                 IF position.borrowed_usdc > 0
                 THEN pool_total_owed(s.pool, borrower_account, t) ELSE 0,
                 t, sl)

\* The slippage requirement and the fee on principal and yield.
close_inferno_valued(s, res0, user, owner, ba, max_slippage_bps, price, current_base_value, entry_base_value, t, sl) ==
    LET position == s.inf.positions[owner]
        current_usdc_value == position.usdc_amount
        current_total_value == current_base_value + current_usdc_value
        entry_total_value == entry_base_value + position.usdc_amount
        value_diff == IF current_total_value > entry_total_value
                      THEN current_total_value - entry_total_value
                      ELSE entry_total_value - current_total_value
        yield_value == IF current_total_value > entry_total_value
                       THEN current_total_value - entry_total_value ELSE 0
        total_fee_value ==
            MulDiv(entry_total_value, CLOSE_FEE_PRINCIPAL_BPS, 10000)
                + MulDiv(yield_value, CLOSE_FEE_YIELD_BPS, 10000)
        fee_base_value ==
            MulDiv(total_fee_value, current_base_value, Max(current_total_value, 1))
        fail(e) == [st |-> s, res |-> [res0 EXCEPT !.err = e]]
    IN  IF entry_total_value = 0 THEN fail("InvalidAmount")
        ELSE IF MulDiv(value_diff, 10000, entry_total_value) > max_slippage_bps
             THEN fail("SlippageExceeded")
        ELSE close_inferno_shares(s, res0, user, owner, ba, price,
                 MulDiv(fee_base_value, PRICE_SCALE, price),
                 MulDiv(total_fee_value, current_usdc_value,
                        Max(current_total_value, 1)),
                 t, sl)

\* The requirements on the call and the position, and the oracle price p.
close_inferno_priced(s, res0, user, owner, ba, max_slippage_bps, p, t, sl) ==
    LET position == s.inf.positions[owner]
        fail(e) == [st |-> s, res |-> [res0 EXCEPT !.err = e]]
    IN  IF max_slippage_bps > 10000 THEN fail("InvalidAmount")
        ELSE IF s.inf.paused THEN fail("ProtocolPaused")
        ELSE IF ~position.is_open THEN fail("PositionNotOpen")
        ELSE IF ~position_owner_is(position, user) THEN fail("Unauthorized")
        ELSE IF ~p.ok THEN fail(p.err)
        ELSE close_inferno_valued(s, res0, user, owner, ba, max_slippage_bps,
                 p.price,
                 MulDiv(position.base_amount, p.price, LAMPORTS_PER_SOL),
                 MulDiv(position.base_amount, position.entry_price, LAMPORTS_PER_SOL),
                 t, sl)

\* The body of close_inferno_lp_position for accounts that passed validation.
close_inferno_body(s, res0, user, owner, ba, max_slippage_bps, o, t, sl) ==
    close_inferno_priced(s, res0, user, owner, ba, max_slippage_bps,
                         get_oracle_price(s.inf, o, t), t, sl)

\* What both instructions record of the call: the position passed, and its
\* LTV l where calculate_ltv_bps yields one.
inferno_call(s, op, user, owner, max_slippage_bps, l) ==
    [ICNoCall EXCEPT !.op = op, !.user = user, !.owner = owner,
                     !.max_slippage_bps = max_slippage_bps,
                     !.was_open = s.inf.positions[owner].is_open,
                     !.ltv_bps = l.ltv_bps,
                     !.usdc_amount = s.inf.positions[owner].usdc_amount,
                     !.borrowed_usdc = s.inf.positions[owner].borrowed_usdc]

close_inferno_validated(s, res, checked, user, owner, ba, max_slippage_bps, o, t, sl) ==
    IF checked # "Ok" THEN [st |-> s, res |-> [res EXCEPT !.err = checked]]
    ELSE close_inferno_body(s, res, user, owner, ba, max_slippage_bps, o, t, sl)

\* close_inferno_lp_position(max_slippage_bps) signed by user
close_inferno_lp_position_result(s, user, owner, ba, max_slippage_bps, o, t, sl) ==
    close_inferno_validated(s,
        inferno_call(s, "close_inferno_lp_position", user, owner, max_slippage_bps,
                     calculate_ltv_bps(s.inf, s.inf.positions[owner], o, t)),
        close_inferno_accounts(s, user, owner, ba),
        user, owner, ba, max_slippage_bps, o, t, sl)

liquidate_inferno_checked(s, res, checked, l, user, owner, ba, max_slippage_bps, o, t, sl) ==
    IF checked # "Ok" THEN [st |-> s, res |-> [res EXCEPT !.err = checked]]
    ELSE IF ~l.ok THEN [st |-> s, res |-> [res EXCEPT !.err = l.err]]
    ELSE IF ~inferno_liquidation_threshold_passed(l.ltv_bps)
         THEN [st |-> s, res |-> [res EXCEPT !.err = "PositionNotLiquidatable"]]
    ELSE close_inferno_body(s, res, user, owner, ba, max_slippage_bps, o, t, sl)

liquidate_inferno_with_ltv(s, l, user, owner, ba, max_slippage_bps, o, t, sl) ==
    liquidate_inferno_checked(s,
        inferno_call(s, "liquidate_inferno_lp_position", user, owner,
                     max_slippage_bps, l),
        close_inferno_accounts(s, user, owner, ba),
        l, user, owner, ba, max_slippage_bps, o, t, sl)

\* liquidate_inferno_lp_position(max_slippage_bps) signed by user
liquidate_inferno_lp_position_result(s, user, owner, ba, max_slippage_bps, o, t, sl) ==
    liquidate_inferno_with_ltv(s,
        calculate_ltv_bps(s.inf, s.inf.positions[owner], o, t),
        user, owner, ba, max_slippage_bps, o, t, sl)

-----------------------------------------------------------------------------
(***************************************************************************)
(* forge-crucibles: LP positions (lp.rs)                                   *)
(***************************************************************************)
Nonces == {0, 1}
MaxNewtonSteps == 64

NoLPPosition ==
    [initialized |-> FALSE, position_id |-> 0, owner |-> "none", base_amount |-> 0,
     usdc_amount |-> 0, entry_price |-> 0, entry_exchange_rate |-> 0,
     created_at |-> 0, is_open |-> FALSE, nonce |-> 0]

\* initialize_crucible: the fields of the Crucible account that the LP
\* instructions read and write, with the token accounts around them
NewLp ==
    [total_ctoken_supply |-> 0, total_lp_token_supply |-> 0,
     exchange_rate |-> 1000000, total_lp_positions |-> 0,
     usdc_vault |-> 0, treasury_usdc |-> 0,
     lp_tokens |-> [u \in Users |-> 0],
     positions |-> [k \in Users \X Nonces |-> NoLPPosition]]

LpNoCall ==
    [op |-> "none", user |-> "none", err |-> "Ok", amount |-> 0,
     usdc_amount |-> 0, max_slippage_bps |-> 0, nonce |-> 0,
     oracle_some |-> FALSE, position_id |-> 0, entry_exchange_rate |-> 0]

\* The accounts open_lp_position works on.
LpState == [crucible |-> crucible, vault_amount |-> vault_amount,
            treasury_amount |-> treasury_amount, base_tokens |-> base_tokens,
            usdc |-> usdc, lp |-> lp_accounts]

\* Newton's method of open_lp_position: while guess != prev_guess
\* { prev_guess = guess; guess = (guess + product / guess) / 2 }.  A loop that
\* has not ended after MaxNewtonSteps rounds never ends: the transaction runs
\* out of compute units.
\* one pass of the loop body: guess = (guess + product / guess) / 2
newton_next(product, guess) == (guess + product \div guess) \div 2

RECURSIVE newton_sqrt(_, _, _, _)
newton_sqrt(product, guess, prev_guess, steps) ==
    IF guess = prev_guess THEN [ok |-> TRUE, value |-> guess]
    ELSE IF steps = 0 THEN [ok |-> FALSE, value |-> 0]
    ELSE newton_sqrt(product, newton_next(product, guess), guess, steps - 1)

\* The stored exchange rate as open_lp_position leaves it.
stored_exchange_rate(c, l) ==
    IF l.total_ctoken_supply > 0
    THEN MulDiv(Tracked(c), 1000000, l.total_ctoken_supply)
    ELSE l.exchange_rate

\* open_lp_position by user u on a crucible account of the current layout;
\* o is the oracle account passed, sl the slot.
open_lp_position_result(s, u, base_amount, usdc_amount, max_slippage_bps, position_nonce, o, t, sl) ==
    LET c == s.crucible
        l == s.lp
        p == get_oracle_price(c, o, t)
        base_token_price == p.price
        base_value == MulDiv(base_amount, base_token_price, PRICE_SCALE)
        usdc_value == usdc_amount
        value_diff == IF base_value > usdc_value THEN base_value - usdc_value
                      ELSE usdc_value - base_value
        denominator == Max(base_value, usdc_value)
        slippage_bps == MulDiv(value_diff, 10000, denominator)
        total_position_value == base_value + usdc_value
        open_fee_usdc == MulDiv(total_position_value, OPEN_FEE_BPS, 10000)
        fee_base_amount ==
            MulDiv(MulDiv(open_fee_usdc, base_amount, total_position_value),
                   PRICE_SCALE, base_token_price)
        fee_usdc_amount == MulDiv(open_fee_usdc, usdc_amount, total_position_value)
        vault_fee_base == MulDiv(fee_base_amount, 80, 100)
        vault_fee_usdc == MulDiv(fee_usdc_amount, 80, 100)
        protocol_fee_base == fee_base_amount - vault_fee_base
        protocol_fee_usdc == fee_usdc_amount - vault_fee_usdc
        net_base_amount == base_amount - (vault_fee_base + protocol_fee_base)
        net_usdc_amount == usdc_amount - (vault_fee_usdc + protocol_fee_usdc)
        position_id == l.total_lp_positions + 1
        product == base_value * usdc_value
        root == newton_sqrt(product, product, 0, MaxNewtonSteps)
        lp_tokens_to_mint == root.value * 1000
        key == <<u, position_nonce>>
        res == [LpNoCall EXCEPT !.op = "open_lp_position", !.user = u,
                                !.amount = base_amount,
                                !.usdc_amount = usdc_amount,
                                !.max_slippage_bps = max_slippage_bps,
                                !.nonce = position_nonce]
        fail(e) == [st |-> s, res |-> [res EXCEPT !.err = e]]
        c1 == [c EXCEPT !.total_fees_accrued = @ + vault_fee_base]
        l1 == [l EXCEPT
                 !.usdc_vault = @ + net_usdc_amount + vault_fee_usdc,
                 !.treasury_usdc = @ + protocol_fee_usdc,
                 !.lp_tokens[u] = @ + lp_tokens_to_mint,
                 !.positions[key] =
                     [initialized |-> TRUE, position_id |-> position_id,
                      owner |-> u, base_amount |-> net_base_amount,
                      usdc_amount |-> net_usdc_amount,
                      entry_price |-> base_token_price,
                      entry_exchange_rate |-> l.exchange_rate,
                      created_at |-> sl, is_open |-> TRUE,
                      nonce |-> position_nonce],
                 !.total_lp_positions = position_id,
                 !.total_lp_token_supply = @ + lp_tokens_to_mint]
        done == [s EXCEPT
                   !.crucible = c1,
                   !.vault_amount = @ + net_base_amount + vault_fee_base,
                   !.treasury_amount = @ + protocol_fee_base,
                   !.base_tokens[u] = @ - base_amount,
                   !.usdc[u] = @ - usdc_amount,
                   !.lp = [l1 EXCEPT !.exchange_rate =
                                         stored_exchange_rate(c1, l1)]]
    \* the position account is created by the instruction (init)
    IN  IF l.positions[key].initialized THEN fail("AccountAlreadyInUse")
        ELSE IF \/ max_slippage_bps > 10000
                \/ base_amount < MIN_LP_BASE_AMOUNT
                \/ Less(MAX_LP_BASE_AMOUNT, Digits(base_amount))
                \/ usdc_amount < MIN_LP_USDC_AMOUNT
                \/ Less(MAX_LP_USDC_AMOUNT, Digits(usdc_amount))
             THEN fail("InvalidAmount")
        ELSE IF protocol_paused(c) THEN fail("ProtocolPaused")
        ELSE IF c.oracle # "None" /\ ~o.some THEN fail("InvalidOraclePrice")
        ELSE IF ~p.ok THEN fail(p.err)
        ELSE IF denominator = 0 THEN fail("InvalidAmount")
        ELSE IF slippage_bps > max_slippage_bps THEN fail("SlippageExceeded")
        ELSE IF net_base_amount < 0 \/ net_usdc_amount < 0
             THEN fail("ArithmeticOverflow")
        ELSE IF s.base_tokens[u] < base_amount \/ s.usdc[u] < usdc_amount
             THEN fail("InsufficientFunds")
        ELSE IF product = 0 THEN fail("InvalidAmount")
        ELSE IF ~root.ok THEN fail("ComputationalBudgetExceeded")
        ELSE [st |-> done,
              res |-> [res EXCEPT !.position_id = position_id,
                                  !.entry_exchange_rate = l.exchange_rate]]

\* close_lp_position reusing the slot of the closed position: the counter is
\* taken back by one.
close_lp_settle_decrementing(s, res0, key, total_sol_to_return, protocol_fee_base, protocol_fee_usdc, usdc_to_return, vault_fee_base, root, product) ==
    [st |-> [s EXCEPT !.lp.positions[key].is_open = FALSE,
                      !.lp.total_lp_positions = @ - 1],
     res |-> res0]

\* close_lp_position from the liquidity check on: the transfers out of the two
\* vaults, the fee accounting, the burn of the LP tokens and the write-back of
\* the Crucible account.  The USDC of the position all goes to the treasury;
\* the user is paid its worth in base tokens.
close_lp_settle(s, res0, key, total_sol_to_return, protocol_fee_base, protocol_fee_usdc, usdc_to_return, vault_fee_base, root, product) ==
    LET u == key[1]
        pos == s.lp.positions[key]
        pays_fee_base == protocol_fee_base > 0 /\ protocol_fee_base <= pos.base_amount
        pays_fee_usdc == protocol_fee_usdc > 0 /\ protocol_fee_usdc <= pos.usdc_amount
        fee_base_out == IF pays_fee_base THEN protocol_fee_base ELSE 0
        fee_usdc_out == IF pays_fee_usdc THEN protocol_fee_usdc ELSE 0
        usdc_remaining_after_protocol_fee ==
            usdc_to_return - Min(protocol_fee_usdc, usdc_to_return)
        lp_tokens_to_burn == root.value * 1000
        c1 == [s.crucible EXCEPT !.total_fees_accrued = @ + vault_fee_base]
        l1 == [s.lp EXCEPT
                 !.usdc_vault = @ - fee_usdc_out - usdc_remaining_after_protocol_fee,
                 !.treasury_usdc = @ + fee_usdc_out + usdc_remaining_after_protocol_fee,
                 !.lp_tokens[u] = @ - lp_tokens_to_burn,
                 !.total_lp_token_supply = @ - lp_tokens_to_burn,
                 !.positions[key].is_open = FALSE]
        fail(e) == [st |-> s, res |-> [res0 EXCEPT !.err = e]]
    IN  IF s.vault_amount < total_sol_to_return + protocol_fee_base
        THEN fail("InsufficientLiquidity")
        ELSE IF s.vault_amount < total_sol_to_return + fee_base_out
             THEN fail("InsufficientFunds")
        ELSE IF s.lp.usdc_vault < fee_usdc_out + usdc_remaining_after_protocol_fee
             THEN fail("InsufficientFunds")
        ELSE IF product = 0 THEN fail("InvalidAmount")
        ELSE IF ~root.ok THEN fail("ComputationalBudgetExceeded")
        ELSE IF s.lp.lp_tokens[u] < lp_tokens_to_burn THEN fail("InsufficientFunds")
        ELSE IF s.lp.total_lp_token_supply < lp_tokens_to_burn THEN fail("InvalidAmount")
        ELSE [st |-> [s EXCEPT
                        !.crucible = c1,
                        !.vault_amount = @ - total_sol_to_return - fee_base_out,
                        !.treasury_amount = @ + fee_base_out,
                        !.base_tokens[u] = @ + total_sol_to_return,
                        !.lp = [l1 EXCEPT !.exchange_rate =
                                              stored_exchange_rate(c1, l1)]],
              res |-> res0]

\* The 80/20 split of the fee, the amounts returned and the worth in base
\* tokens of the USDC returned.
close_lp_shares(s, res0, key, price, current_base_value, fee_base_amount, fee_usdc_amount) ==
    LET pos == s.lp.positions[key]
        vault_fee_base == MulDiv(fee_base_amount, 80, 100)
        vault_fee_usdc == MulDiv(fee_usdc_amount, 80, 100)
        base_to_return == pos.base_amount - Min(fee_base_amount, pos.base_amount)
        usdc_to_return == pos.usdc_amount - Min(fee_usdc_amount, pos.usdc_amount)
        usdc_to_sol_amount == MulDiv(usdc_to_return, PRICE_SCALE, price)
        product == current_base_value * pos.usdc_amount
    IN  close_lp_settle(s, res0, key, base_to_return + usdc_to_sol_amount,
                        fee_base_amount - vault_fee_base,
                        fee_usdc_amount - vault_fee_usdc,
                        usdc_to_return, vault_fee_base,
                        IF product = 0 THEN [ok |-> FALSE, value |-> 0]
                        ELSE newton_sqrt(product, product, 0, MaxNewtonSteps),
                        product)

\* The slippage requirement, the yield from the growth of the stored exchange
\* rate and from the price, and the fee on principal and yield.
close_lp_valued(s, res0, key, max_slippage_bps, price, current_base_value, entry_base_value) ==
    LET pos == s.lp.positions[key]
        current_usdc_value == pos.usdc_amount
        current_total_value == current_base_value + current_usdc_value
        entry_total_value == entry_base_value + pos.usdc_amount
        value_diff == IF current_total_value > entry_total_value
                      THEN current_total_value - entry_total_value
                      ELSE entry_total_value - current_total_value
        entry_exchange_rate == pos.entry_exchange_rate
        current_exchange_rate == s.lp.exchange_rate
        exchange_rate_yield ==
            IF current_exchange_rate > entry_exchange_rate
            THEN MulDiv(entry_total_value,
                        current_exchange_rate - entry_exchange_rate,
                        entry_exchange_rate)
            ELSE 0
        price_pnl == IF current_total_value > entry_total_value
                     THEN current_total_value - entry_total_value ELSE 0
        yield_value == exchange_rate_yield + price_pnl
        total_fee_value ==
            MulDiv(entry_total_value, CLOSE_FEE_PRINCIPAL_BPS, 10000)
                + MulDiv(yield_value, CLOSE_FEE_YIELD_BPS, 10000)
        fee_base_value ==
            MulDiv(total_fee_value, current_base_value, Max(current_total_value, 1))
        fail(e) == [st |-> s, res |-> [res0 EXCEPT !.err = e]]
    IN  IF entry_total_value = 0 THEN fail("InvalidAmount")
        ELSE IF MulDiv(value_diff, 10000, entry_total_value) > max_slippage_bps
             THEN fail("SlippageExceeded")
        ELSE close_lp_shares(s, res0, key, price, current_base_value,
                 MulDiv(fee_base_value, PRICE_SCALE, price),
                 MulDiv(total_fee_value, current_usdc_value,
                        Max(current_total_value, 1)))

\* The requirements on the call and the position, and the oracle price p.
close_lp_priced(s, res0, key, max_slippage_bps, o, p) ==
    LET pos == s.lp.positions[key]
        fail(e) == [st |-> s, res |-> [res0 EXCEPT !.err = e]]
    IN  IF max_slippage_bps > 10000 THEN fail("InvalidAmount")
        ELSE IF protocol_paused(s.crucible) THEN fail("ProtocolPaused")
        ELSE IF ~pos.is_open THEN fail("PositionNotOpen")
        ELSE IF s.crucible.oracle # "None" /\ ~o.some THEN fail("InvalidOraclePrice")
        ELSE IF ~p.ok THEN fail(p.err)
        ELSE close_lp_valued(s, res0, key, max_slippage_bps, p.price,
                 MulDiv(pos.base_amount, p.price, PRICE_SCALE),
                 MulDiv(pos.base_amount, pos.entry_price, PRICE_SCALE))

\* close_lp_position(max_slippage_bps, position_nonce) by user u on a crucible
\* account of the current layout.  The position account is the one derived
\* from the signer and the nonce, so only its owner can pass it.
close_lp_position_result(s, u, max_slippage_bps, position_nonce, o, t) ==
    LET key == <<u, position_nonce>>
        pos == s.lp.positions[key]
        res0 == [LpNoCall EXCEPT !.op = "close_lp_position", !.user = u,
                                 !.max_slippage_bps = max_slippage_bps,
                                 !.nonce = position_nonce,
                                 !.position_id = pos.position_id]
    IN  IF ~pos.initialized
        THEN [st |-> s, res |-> [res0 EXCEPT !.err = "AccountNotInitialized"]]
        ELSE close_lp_priced(s, res0, key, max_slippage_bps, o,
                             get_oracle_price(s.crucible, o, t))

-----------------------------------------------------------------------------
(* Initial accounts of the lending programs *)

\* lending: initialize_market(params) at time t
NewMarket(im, t) ==
    [total_supply |-> 0, total_borrowed |-> 0, accumulated_index |-> RATE_SCALE,
     last_accrued_ts |-> t, interest_model |-> im, paused |-> FALSE,
     pause_proposed_at |-> [some |-> FALSE, at |-> 0]]

\* lending-pool: initialize(initial_liquidity); no tokens move
NewPool(initial_liquidity) ==
    [total_liquidity |-> initial_liquidity, total_borrowed |-> 0,
     borrow_rate |-> BORROW_RATE, lender_rate |-> LENDER_RATE, paused |-> FALSE]

NoMarketBorrower == [initialized |-> FALSE, principal |-> 0, borrow_index |-> 0]
NoPoolBorrower == [initialized |-> FALSE, amount_borrowed |-> 0, borrow_timestamp |-> 0]

LendingAccounts(im, initial_liquidity) ==
    /\ now = StartTime
    /\ market = NewMarket(im, StartTime)
    /\ market_vault = 0
    /\ receipts = [u \in Users |-> 0]
    /\ mborrowers = [u \in Users |-> NoMarketBorrower]
    /\ pool = NewPool(initial_liquidity)
    /\ pool_vault = 0
    /\ pborrowers = [u \in Users |-> NoPoolBorrower]
    /\ usdc = [u \in Users |-> InitialUsdc]

LendingIdle ==
    LendingAccounts([base_rate_bps |-> 0, slope1_bps |-> 0, slope2_bps |-> 0,
                     kink_bps |-> 8000], 0)

\* No position yet; the oracle carries a fresh quote of 1.0 USD.
LvfIdle ==
    /\ slot = 0
    /\ oracle = PriceAccount([price |-> 100000000, expo |-> -8, conf |-> 0],
                             StartTime)
    /\ positions = [u \in Users |-> NoPosition]
    /\ base_tokens = [u \in Users |-> InitialBase]
    /\ inferno = NewInferno("price_feed")
    /\ lp_accounts = NewLp

-----------------------------------------------------------------------------
(* The cToken state machine *)

\* The model keeps tracked / supply below MaxRatio so that the scaled rate fits.
RateFits(s) ==
    IF s.ctoken_supply = 0 THEN TRUE
    ELSE Tracked(s.crucible) \div s.ctoken_supply < MaxRatio

\* Applies the outcome of a call: the accounts, the result, the histories.
Apply(o) ==
    LET changed == (o.st # CState)
        rt == /\ pending_mint.active
              /\ o.res.op = "burn_ctoken" /\ o.res.err = "Ok"
              /\ o.res.user = pending_mint.user
              /\ o.res.ctokens = pending_mint.ctokens
    IN  /\ RateFits(o.st)
        /\ (changed => nops < MaxOps)
        /\ crucible' = o.st.crucible
        /\ vault_amount' = o.st.vault_amount
        /\ ctoken_supply' = o.st.ctoken_supply
        /\ user_ctoken' = o.st.user_ctoken
        /\ treasury_amount' = o.st.treasury_amount
        /\ last' = IF rt THEN [o.res EXCEPT !.round_trip = TRUE,
                                            !.rt_amount = pending_mint.amount,
                                            !.rt_mint_fee = pending_mint.wrap_fee,
                                            !.rt_vault_share = pending_mint.vault_fee_share,
                                            !.rt_rate = pending_mint.rate_after,
                                            !.rt_noops = pending_mint.noops]
                         ELSE o.res
        /\ pending_mint' =
              IF o.res.op = "mint_ctoken" /\ o.res.err = "Ok"
              THEN [active |-> TRUE, user |-> o.res.user, amount |-> o.res.amount,
                    wrap_fee |-> o.res.fee,
                    vault_fee_share |-> o.res.vault_fee_share,
                    ctokens |-> o.res.ctokens,
                    rate_after |-> calculate_exchange_rate(o.st.crucible,
                                       o.st.vault_amount, o.st.ctoken_supply).rate,
                    noops |-> 0]
              ELSE IF changed THEN NoPending
              ELSE IF pending_mint.active
                   THEN [pending_mint EXCEPT !.noops = IF @ < MaxNoops THEN @ + 1 ELSE @]
                   ELSE pending_mint
        /\ nops' = IF changed THEN nops + 1 ELSE nops
        /\ UNCHANGED <<now, marketVars, poolVars, lvfVars>>

\* A mint that succeeds is applied when its amount is below 2^31.
mint_ctoken(u, amount) ==
    \E o \in {mint_ctoken_result(CState, u, amount)} :
        /\ o.res.err = "Ok" => FitsInt(amount)
        /\ Apply(o)

BurnAmounts(u) ==
    {0, user_ctoken[u], user_ctoken[u] \div 2, user_ctoken[u] + 1}
        \cup (IF pending_mint.active /\ pending_mint.user = u
              THEN {pending_mint.ctokens} ELSE {})

burn_ctoken(u, ctokens_amount) ==
    \E o \in {burn_ctoken_result(CState, u, ctokens_amount)} : Apply(o)

deposit_arbitrage_profit(u, amount) ==
    \E o \in {deposit_arbitrage_profit_result(CState, u, amount)} : Apply(o)

\* SPL token transfer straight into the vault account: anyone may send tokens
\* to it; no crucible field changes.
vault_donation(d) ==
    Apply([st |-> [CState EXCEPT !.vault_amount = @ + d],
           res |-> [NoCall EXCEPT !.op = "vault_donation", !.amount = d]])

\* Tokens leaving the vault account without expected_vault_balance following
\* (the drained vault the balance validation is written against).
vault_outflow(d) ==
    /\ d <= vault_amount
    /\ Apply([st |-> [CState EXCEPT !.vault_amount = @ - d],
              res |-> [NoCall EXCEPT !.op = "vault_outflow", !.amount = d]])

\* The pause administration of the protocol: the crucible's paused flag is
\* written outside the instructions of this program.
set_paused(p) ==
    /\ p # crucible.paused
    /\ nops < MaxOps
    /\ crucible' = [crucible EXCEPT !.paused = p]
    /\ nops' = nops + 1
    /\ last' = [NoCall EXCEPT !.op = "set_paused"]
    /\ pending_mint' = NoPending
    /\ UNCHANGED <<vault_amount, ctoken_supply, user_ctoken, treasury_amount, now,
                   marketVars, poolVars, lvfVars>>

\* lib.rs: initialize_crucible(fee_rate), fee_rate <= 10_000
Init ==
    /\ crucible \in [total_base_deposited : {0}, total_fees_accrued : {0},
                     expected_vault_balance : {0}, fee_rate : FeeRates,
                     paused : {FALSE}, total_leveraged_positions : {0},
                     oracle : {"price_feed"}]
    /\ vault_amount = 0
    /\ ctoken_supply = 0
    /\ user_ctoken = [u \in Users |-> 0]
    /\ treasury_amount = 0
    /\ last = NoCall
    /\ pending_mint = NoPending
    /\ nops = 0
    /\ LendingIdle
    /\ LvfIdle

Next ==
    \/ \E u \in Users :
         \E amount \in {Digits(a) : a \in MintAmounts} \cup LargeMintAmounts :
           mint_ctoken(u, amount)
    \/ \E u \in Users : \E n \in BurnAmounts(u) : burn_ctoken(u, n)
    \/ \E u \in Users, amount \in ArbAmounts : deposit_arbitrage_profit(u, amount)
    \/ \E d \in DonationAmounts : vault_donation(d)
    \/ \E d \in OutflowAmounts : vault_outflow(d)
    \/ \E p \in BOOLEAN : set_paused(p)

Spec == Init /\ [][Next]_vars

-----------------------------------------------------------------------------
(* The lending state machine: the Market under the cluster clock *)

\* The model keeps total_borrowed / total_supply small enough for util_scaled.
UtilFits(m) == m.total_borrowed <= 2 * Max(1, m.total_supply)

MApply(o) ==
    LET changed == (o.st # MState)
    IN  /\ o.st.market.accumulated_index <= MaxIndex
        /\ UtilFits(o.st.market)
        /\ (changed => nops < MaxRepayOps)
        /\ market' = o.st.market
        /\ market_vault' = o.st.market_vault
        /\ receipts' = o.st.receipts
        /\ mborrowers' = o.st.mborrowers
        /\ last' = o.res
        /\ nops' = IF changed THEN nops + 1 ELSE nops
        /\ UNCHANGED <<now, ctokVars, ctokHist, poolVars, lvfVars>>

PApply(o) ==
    LET changed == (o.st # PState)
    IN  /\ (changed => nops < MaxRepayOps)
        /\ pool' = o.st.pool
        /\ pool_vault' = o.st.pool_vault
        /\ pborrowers' = o.st.pborrowers
        /\ usdc' = o.st.usdc
        /\ last' = o.res
        /\ nops' = IF changed THEN nops + 1 ELSE nops
        /\ UNCHANGED <<now, ctokVars, ctokHist, marketVars, lvfVars>>

\* The cluster clock: any of the model's times may be the next one reported.
set_clock(t) ==
    /\ t # now
    /\ now' = t
    /\ last' = LDone("set_clock", "none", t)
    /\ UNCHANGED <<nops, ctokVars, ctokHist, marketVars, poolVars, lvfVars>>

accrue_interest == \E o \in {accrue_interest_result(MState, now)} : MApply(o)

supply(u, amount) == \E o \in {supply_result(MState, u, amount, now)} : MApply(o)

withdraw(u, amount) == \E o \in {withdraw_result(MState, u, amount, now)} : MApply(o)

borrow(u, amount) == \E o \in {borrow_result(MState, u, amount, now)} : MApply(o)

repay(u, amount) == \E o \in {repay_result(MState, u, amount, now)} : MApply(o)

pause_market(authorised, paused) ==
    \E o \in {pause_market_result(MState, authorised, paused, now)} : MApply(o)

execute_pause(authorised) ==
    \E o \in {execute_pause_result(MState, authorised, now)} : MApply(o)

deposit_usdc(u, amount) == \E o \in {deposit_usdc_result(PState, u, amount)} : PApply(o)

borrow_usdc(u, amount) ==
    \E o \in {borrow_usdc_result(PState, u, u, amount, now)} : PApply(o)

repay_usdc(u, from, amount) ==
    \E o \in {repay_usdc_result(PState, u, TRUE, from, amount, now)} : PApply(o)

WithdrawAmounts(u) == {500, receipts[u]}

BorrowAmounts ==
    LET available == borrow_available(do_accrue_interest(market, now))
    IN  MarketAmounts \cup {a \in {available, available + 1} : a >= 0}

RepayAmounts(u) ==
    LET owed == market_total_owed(mborrowers[u],
                                  do_accrue_interest(market, now).accumulated_index)
    IN  MarketAmounts \cup {owed, owed + 1}

PoolBorrowAmounts ==
    PoolAmounts \cup {a \in {borrowable(pool), borrowable(pool) + 1} : a >= 0}

PoolRepayAmounts(u) ==
    IF pborrowers[u].borrow_timestamp > now THEN PoolAmounts
    ELSE PoolAmounts \cup {pool_total_owed(pool, pborrowers[u], now),
                           pool_total_owed(pool, pborrowers[u], now) + 1}

InitLending ==
    /\ crucible = [total_base_deposited |-> 0, total_fees_accrued |-> 0,
                   expected_vault_balance |-> 0, fee_rate |-> 0,
                   paused |-> FALSE, total_leveraged_positions |-> 0,
                   oracle |-> "price_feed"]
    /\ vault_amount = 0
    /\ ctoken_supply = 0
    /\ user_ctoken = [u \in Users |-> 0]
    /\ treasury_amount = 0
    /\ last = LNoCall
    /\ pending_mint = NoPending
    /\ nops = 0
    /\ \E im \in RateModels : LendingAccounts(im, 0)
    /\ LvfIdle

NextLending ==
    \/ \E t \in Times : set_clock(t)
    \/ accrue_interest /\ nops' <= MaxLendOps
    \/ \E u \in Users, amount \in SupplyAmounts :
          supply(u, amount) /\ nops' <= MaxLendOps
    \/ \E u \in Users : \E amount \in WithdrawAmounts(u) :
          withdraw(u, amount) /\ nops' <= MaxLendOps
    \/ \E u \in Users : \E amount \in BorrowAmounts :
          borrow(u, amount) /\ nops' <= MaxLendOps
    \/ \E u \in Users : \E amount \in RepayAmounts(u) :
          repay(u, amount) /\ nops' <= MaxLendOps

SpecLending == InitLending /\ [][NextLending]_vars

-----------------------------------------------------------------------------
(* The leveraged-position state machine: crucible, lending pool, oracle *)

VApply(o) ==
    LET changed == (o.st # VState)
    IN  /\ (changed => nops < MaxLvfOps)
        /\ crucible' = o.st.crucible
        /\ vault_amount' = o.st.vault_amount
        /\ treasury_amount' = o.st.treasury_amount
        /\ positions' = o.st.positions
        /\ base_tokens' = o.st.base_tokens
        /\ pool' = o.st.pool
        /\ pool_vault' = o.st.pool_vault
        /\ pborrowers' = o.st.pborrowers
        /\ usdc' = o.st.usdc
        /\ last' = o.res
        /\ nops' = IF changed THEN nops + 1 ELSE nops
        /\ UNCHANGED <<now, slot, oracle, ctoken_supply, user_ctoken, ctokHist,
                       marketVars, inferno, lp_accounts>>

\* some: the optional oracle account is passed with the instruction.
open_leveraged_position(u, collateral_amount, leverage_factor, some) ==
    \E o \in {open_leveraged_position_result(VState, u, collateral_amount,
                    leverage_factor, OracleAccount(some, oracle), now, slot)} :
        VApply([o EXCEPT !.res.oracle_some = some])

close_leveraged_position(u, max_slippage_bps, some) ==
    \E o \in {close_leveraged_position_result(VState, u, max_slippage_bps,
                    OracleAccount(some, oracle), now, slot)} :
        VApply([o EXCEPT !.res.oracle_some = some])

health_check(owner, some) ==
    \E o \in {health_check_result(VState, owner, OracleAccount(some, oracle),
                                   now, slot)} :
        VApply([o EXCEPT !.res.oracle_some = some])

liquidate_position(liq, owner, position_owner, co_signed, some) ==
    \E o \in {liquidate_position_result(VState, liq, owner, position_owner,
                    co_signed, OracleAccount(some, oracle), now, slot)} :
        VApply([o EXCEPT !.res.oracle_some = some])

\* The oracle's publisher writes a new quote, stamped with the current time.
publish_price(q) ==
    /\ <<oracle.price, oracle.expo, oracle.conf, oracle.publish_time>>
          # <<q.price, q.expo, q.conf, now>>
    /\ oracle' = PriceAccount(q, now)
    /\ last' = [VNoCall EXCEPT !.op = "publish_price", !.amount = q.price]
    /\ UNCHANGED <<nops, now, slot, positions, base_tokens, inferno, lp_accounts,
                   ctokVars, ctokHist, marketVars, poolVars>>

\* The cluster advances by d slots of 400 ms.
advance_slots(d) ==
    /\ slot + d <= MaxSlot
    /\ slot' = slot + d
    /\ now' = now + MulDiv(d, 400, 1000)
    /\ last' = [VNoCall EXCEPT !.op = "advance_slots", !.amount = d]
    /\ UNCHANGED <<nops, oracle, positions, base_tokens, inferno, lp_accounts,
                   ctokVars, ctokHist, marketVars, poolVars>>

InitLvf ==
    /\ crucible \in [total_base_deposited : {0}, total_fees_accrued : {0},
                     expected_vault_balance : {0}, fee_rate : LvfFeeRates,
                     paused : {FALSE}, total_leveraged_positions : {0},
                     oracle : {"None", "price_feed"}]
    /\ vault_amount = 0
    /\ ctoken_supply = 0
    /\ user_ctoken = [u \in Users |-> 0]
    /\ treasury_amount = 0
    /\ last = VNoCall
    /\ pending_mint = NoPending
    /\ nops = 0
    /\ LendingIdle
    /\ LvfIdle

\* The instructions of the traders, with the oracle account passed or not;
\* the lenders fund the pool (their borrows and repayments are in SpecPool).
NextLvf ==
    \/ \E u \in Lenders, amount \in PoolDeposits :
          nops < MaxLvfOps /\ deposit_usdc(u, amount)
    \/ \E u \in Traders, i \in OpenInputs :
          open_leveraged_position(u, i[1], i[2], i[3])
    \/ \E u \in Traders, i \in CloseInputs :
          close_leveraged_position(u, i[1], i[2])
    \/ \E owner \in Traders, some \in BOOLEAN : health_check(owner, some)
    \/ \E liq \in Users, owner \in Traders, i \in LiquidateInputs :
          \E position_owner \in {liq, owner} :
              liquidate_position(liq, owner, position_owner, i[1], i[2])
    \/ \E q \in Quotes : publish_price(q)
    \/ \E d \in SlotSteps : advance_slots(d)
    \/ \E p \in BOOLEAN : set_paused(p)

SpecLvf == InitLvf /\ [][NextLvf]_vars

-----------------------------------------------------------------------------
(* Properties of the cToken vault *)

CurrentRate == calculate_exchange_rate(crucible, vault_amount, ctoken_supply)

CtokenOps == {"mint_ctoken", "burn_ctoken", "deposit_arbitrage_profit"}

\* C1: in every reachable state the redeemable value of the supply, cToken
\* supply * calculate_exchange_rate() / 1_000_000, is at most
\* total_base_deposited + total_fees_accrued, whatever the fee rate the
\* crucible was initialized with; the rate is defined whenever the vault holds
\* exactly its expected balance.
C1_SupplyValueWithinTracked ==
    /\ CurrentRate.ok =>
          MulDiv(ctoken_supply, CurrentRate.rate, 1000000) <= Tracked(crucible)
    /\ vault_amount = crucible.expected_vault_balance => CurrentRate.ok

C1_Witness ==
    /\ last.op = "burn_ctoken" /\ last.err = "Ok" /\ last.ctokens > 0
    /\ crucible.fee_rate = 10000
    /\ ctoken_supply > 0
    /\ CurrentRate.ok /\ CurrentRate.rate > PRICE_SCALE_FACTOR
    /\ MulDiv(ctoken_supply, CurrentRate.rate, 1000000) <= Tracked(crucible)

AmountAccepted(r) ==
    /\ r.op = "mint_ctoken" =>
          /\ ~Less(r.amount_u64, Digits(MIN_DEPOSIT_AMOUNT))
          /\ ~Less(MAX_DEPOSIT_AMOUNT, r.amount_u64)
    /\ r.op = "deposit_arbitrage_profit" => r.amount > 0

OtherVaultAmounts ==
    {crucible.expected_vault_balance} \cup
    {crucible.expected_vault_balance + d : d \in DonationAmounts} \cup
    {vault_amount + d : d \in DonationAmounts}

\* C3: two states that differ only in the vault balance, both accepted by the
\* balance validation, give the same exchange rate, the same shares for a
\* mint and the same base amount for a burn that succeeds in both.
C3_RateIgnoresVaultBalance ==
    \A va \in OtherVaultAmounts :
        LET other == [CState EXCEPT !.vault_amount = va]
            r1 == CurrentRate
            r2 == calculate_exchange_rate(crucible, va, ctoken_supply)
        IN  (r1.ok /\ r2.ok) =>
              /\ r1.rate = r2.rate
              /\ \A u \in Users :
                   /\ \A a \in MintAmounts :
                        mint_ctoken_result(CState, u, Digits(a)).res
                          = mint_ctoken_result(other, u, Digits(a)).res
                   /\ LET b1 == burn_ctoken_result(CState, u, user_ctoken[u]).res
                          b2 == burn_ctoken_result(other, u, user_ctoken[u]).res
                      IN (b1.err = "Ok" /\ b2.err = "Ok") => b1 = b2

C3_Witness ==
    /\ last.op = "mint_ctoken" /\ last.err = "Ok" /\ last.supply_before > 0
    /\ vault_amount > crucible.expected_vault_balance
    /\ last.ctokens = MulDiv(last.net, 1000000,
                             MulDiv(last.tracked_before, 1000000, last.supply_before))

C10_FirstMint ==
    (last.op = "mint_ctoken" /\ last.err = "Ok" /\ last.supply_before = 0) =>
        /\ last.ctokens = last.net
        /\ last.net = last.amount - last.fee
        /\ last.vault_fee_share + last.protocol_fee_share = last.fee
        /\ (last.amount = 1000000 /\ last.tracked_before = 0) =>
              /\ last.fee = 5000 /\ last.vault_fee_share = 4000
              /\ last.protocol_fee_share = 1000
              /\ last.net = 995000 /\ last.ctokens = 995000
              /\ ctoken_supply = 995000
              /\ CurrentRate.ok
              /\ CurrentRate.rate = (999000 * 1000) \div 995
              /\ CurrentRate.rate > 1000000

C10_Witness ==
    /\ last.op = "mint_ctoken" /\ last.err = "Ok" /\ last.supply_before = 0
    /\ last.amount = 1000000 /\ last.tracked_before = 0
    /\ ctoken_supply = 995000 /\ CurrentRate.rate = 1004020

-----------------------------------------------------------------------------
(* Properties of the lending programs *)

MarketOps == {"accrue_interest", "supply", "withdraw", "borrow", "repay"}

\* C7: no step lowers the Market's accumulated_index, whatever the clock
\* reports and whichever of accrue_interest, supply, withdraw, borrow, repay
\* runs; a call made at a time now <= last_accrued_ts changes neither
\* accumulated_index nor last_accrued_ts.
C7_IndexNeverDecreases ==
    [][/\ market'.accumulated_index >= market.accumulated_index
       /\ (last'.op \in MarketOps /\ now <= market.last_accrued_ts)
             => /\ market'.accumulated_index = market.accumulated_index
                /\ market'.last_accrued_ts = market.last_accrued_ts]_vars

C7_Witness ==
    /\ market.accumulated_index > RATE_SCALE
    /\ market.total_borrowed > 0
    /\ now < market.last_accrued_ts
    /\ last.op = "accrue_interest"

\* C8 as stated: after a successful borrow_usdc the pool keeps
\* total_liquidity - total_borrowed >= 1_000_000, and after a successful
\* Market borrow total_supply - total_borrowed stays at or above a positive
\* minimum reserve (at least one unit).
C8_Original ==
    /\ (last.op = "borrow_usdc" /\ last.err = "Ok")
          => pool.total_liquidity - pool.total_borrowed >= MIN_LIQUIDITY_RESERVE
    /\ (last.op = "borrow" /\ last.err = "Ok")
          => market.total_supply - market.total_borrowed >= 1

-----------------------------------------------------------------------------
(* Properties of the leveraged positions *)

InfernoLtvs == {8999, 9000, 9001}

\* C5, as the claim states it: a liquidation at ltv_bps = threshold - 1 is
\* rejected with PositionNotLiquidatable, and one at ltv_bps = threshold or
\* above passes the threshold check, for liquidate_position (8,500 bps) and
\* for liquidate_inferno_lp_position (9,000 bps).
C5_Original ==
    /\ (last.op = "liquidate_position"
          /\ last.ltv_bps = LIQUIDATION_THRESHOLD_BPS - 1
          /\ last.total_debt > 0)
          => last.err = "PositionNotLiquidatable"
    /\ (last.op = "liquidate_position"
          /\ last.ltv_bps >= LIQUIDATION_THRESHOLD_BPS)
          => last.err # "PositionNotLiquidatable"
    /\ \A ltv \in InfernoLtvs :
          /\ (ltv = INFERNO_LIQUIDATION_THRESHOLD_BPS - 1)
                => ~inferno_liquidation_threshold_passed(ltv)
          /\ (ltv >= INFERNO_LIQUIDATION_THRESHOLD_BPS)
                => inferno_liquidation_threshold_passed(ltv)

\* C6, as the claim states it, for the liquidations that pass the threshold
\* requirement: liquidate_position on an open position whose LTV is at or
\* above the threshold, called by a liquidator who holds at least the
\* repayment debt + bonus in USDC, succeeds (the pool accepts the repayment).
C6_Original ==
    (/\ last.op = "liquidate_position"
     /\ last.ltv_bps >= LIQUIDATION_THRESHOLD_BPS
     /\ last.err # "PositionNotLiquidatable"
     /\ last.payer_usdc >= last.total_debt
                             + MulDiv(last.total_debt, LIQUIDATION_BONUS_BPS, 10000))
        => last.err = "Ok"

\* C9, as the claim states it: a close in the slot of the open, at the entry
\* price, pays the owner collateral - principalFee (2% of collateral) and
\* records yield_earned = 0.
C9_Original ==
    (/\ last.op = "close_leveraged_position" /\ last.err = "Ok"
     /\ last.slots_elapsed = 0
     /\ last.price = last.entry_price)
        => /\ last.principal_fee = (last.collateral * 2) \div 100
           /\ last.paid_out = last.collateral - last.principal_fee
           /\ last.yield_earned = 0
           /\ positions[last.user].yield_earned = 0

-----------------------------------------------------------------------------
(* C11: the failures of mint_ctoken *)

\* C11 (as stated): a mint on a paused crucible fails with ProtocolPaused, a
\* mint of an amount below 1_000 or above 10^18 fails with InvalidAmount, a mint
\* in which a checked arithmetic step fails reports ArithmeticOverflow, and a
\* failing mint changes no account.
C11_Original ==
    /\ [](last.op = "mint_ctoken" =>
            /\ crucible.paused => last.err = "ProtocolPaused"
            /\ (/\ ~crucible.paused
                /\ \/ Less(last.amount_u64, Digits(MIN_DEPOSIT_AMOUNT))
                   \/ Less(MAX_DEPOSIT_AMOUNT, last.amount_u64))
                 => last.err = "InvalidAmount"
            /\ last.failed_step # "none" => last.err = "ArithmeticOverflow")
    /\ [][(last'.op = "mint_ctoken" /\ last'.err # "Ok") => UNCHANGED ctokVars]_vars

-----------------------------------------------------------------------------
(* C12: the checks on the oracle price *)

PriceOps == {"open_leveraged_position", "close_leveraged_position",
             "health_check", "liquidate_position"}

LvfAccounts == <<ctokVars, poolVars, positions, base_tokens>>

\* now - publishTime > 300
PriceStale == now > oracle.publish_time /\ now - oracle.publish_time > 300

\* the confidence is more than 500 whole basis points of the price
ConfidenceExceeds == MulDiv(oracle.conf, 10000, oracle.price) > 500

\* price * 10^expo is below 0.001 or above 1_000_000, in exact arithmetic
OutOfBounds(d) ==
    IF d.expo >= 0
    THEN Less(TenTo(6), Product(Digits(d.price), Number(TenTo(d.expo))))
    ELSE \/ Less(Product(Digits(d.price), 1000), TenTo(-d.expo))
         \/ Less(TenTo(6 - d.expo), Digits(d.price))

OutOfBoundsData == {d \in FeedData : OutOfBounds(d)}

PriceOutOfBounds ==
    [price |-> oracle.price, expo |-> oracle.expo, conf |-> oracle.conf]
        \in OutOfBoundsData

\* C12 (as stated): an operation that consumes a price is rejected and changes
\* no account when the price is older than 300 seconds, when its confidence
\* exceeds 500 bps of the price, when the price is outside the absolute
\* bounds, or when no oracle is configured or provided.
C12_Original ==
    [][(/\ last'.op \in PriceOps
        /\ \/ crucible.oracle = "None"
           \/ ~last'.oracle_some
           \/ PriceStale
           \/ ConfidenceExceeds
           \/ PriceOutOfBounds)
          => (last'.err # "Ok" /\ UNCHANGED LvfAccounts)]_vars

\* The same with the confidence as the program computes it in f64.
C12_ComputedConfidence ==
    [][(/\ last'.op \in PriceOps
        /\ \/ crucible.oracle = "None"
           \/ ~last'.oracle_some
           \/ PriceStale
           \/ Less(Digits(500),
                   Readings[[price |-> oracle.price, expo |-> oracle.expo,
                             conf |-> oracle.conf]].confidence_bps)
           \/ PriceOutOfBounds)
          => (last'.err # "Ok" /\ UNCHANGED LvfAccounts)]_vars

-----------------------------------------------------------------------------
(* C13: the lifecycle of a leveraged position *)

PositionOps == {"close_leveraged_position", "liquidate_position", "health_check"}

\* is_open becomes true only when open_leveraged_position creates the record.
OpensOnlyAtCreation ==
    [][\A u \in Users :
          (positions'[u].is_open /\ ~positions[u].is_open)
             => (~positions[u].initialized /\ last'.op = "open_leveraged_position"
                   /\ last'.err = "Ok")]_vars

\* is_open becomes false only by a close or a liquidation that succeeds.
ClosesOnlyByCloseOrLiquidation ==
    [][\A u \in Users :
          (positions[u].is_open /\ ~positions'[u].is_open)
             => (last'.op \in {"close_leveraged_position", "liquidate_position"}
                   /\ last'.err = "Ok")]_vars

\* A closed record is never written again: not reopened, not re-initialised.
ClosedIsFinal ==
    [][\A u \in Users :
          (positions[u].initialized /\ ~positions[u].is_open)
             => positions'[u] = positions[u]]_vars

\* An initialised record stays the record of the position it was created for.
NeverReinitialised ==
    [][\A u \in Users :
          positions[u].initialized
             => /\ positions'[u].initialized
                /\ positions'[u].owner = positions[u].owner
                /\ positions'[u].created_at = positions[u].created_at
                /\ positions'[u].entry_price = positions[u].entry_price]_vars

AllClosed == \A u \in Traders : positions[u].initialized /\ ~positions[u].is_open

-----------------------------------------------------------------------------
(* C14: one crucible vault under the depositors and the leveraged traders *)

VaultFeeRates == {0, 200}

InitVault ==
    /\ crucible \in [total_base_deposited : {0}, total_fees_accrued : {0},
                     expected_vault_balance : {0}, fee_rate : VaultFeeRates,
                     paused : {FALSE}, total_leveraged_positions : {0},
                     oracle : {"price_feed"}]
    /\ vault_amount = 0
    /\ ctoken_supply = 0
    /\ user_ctoken = [u \in Users |-> 0]
    /\ treasury_amount = 0
    /\ last = VNoCall
    /\ pending_mint = NoPending
    /\ nops = 0
    /\ LendingIdle
    /\ LvfIdle

NextVault ==
    \/ \E u \in Lenders, amount \in PoolDeposits :
          nops < MaxLvfOps /\ deposit_usdc(u, amount)
    \/ \E u \in Lenders : \E a \in MintAmounts : mint_ctoken(u, Digits(a))
    \/ \E u \in Lenders : \E n \in {user_ctoken[u]} : burn_ctoken(u, n)
    \/ \E d \in OutflowAmounts : vault_outflow(d)
    \/ \E u \in Traders, i \in OpenInputs :
          open_leveraged_position(u, i[1], i[2], i[3])
    \/ \E u \in Traders, i \in CloseInputs :
          close_leveraged_position(u, i[1], i[2])
    \/ \E d \in SlotSteps : advance_slots(d)

SpecVault == InitVault /\ [][NextVault]_vars

VaultOps == CtokenOps \cup {"open_leveraged_position", "close_leveraged_position",
                            "liquidate_position"}

\* C14: every operation that moves tokens into or out of the crucible vault
\* is rejected when the vault balance is below expected_vault_balance.
C14_Original ==
    [][(vault_amount < crucible.expected_vault_balance /\ last'.op \in VaultOps)
         => last'.err # "Ok"]_vars

\* The part of C14 that the cToken operations satisfy.
C14_CtokenOpsValidate ==
    [][(vault_amount < crucible.expected_vault_balance /\ last'.op \in CtokenOps)
         => last'.err # "Ok"]_vars

-----------------------------------------------------------------------------
(* C15: no arithmetic step continues with a clamped or defaulted value *)

\* The subtraction leveraged_apy - borrow_cost of the closed position's
\* exchange rate would go negative.
ApyUnderflows(pos) ==
    /\ pos.collateral > 0
    /\ leveraged_apy(crucible, pos.collateral, pos.borrowed_usdc)
          < borrow_cost(pos.collateral, pos.borrowed_usdc)

\* C15: whenever a subtraction would go negative (or a value does not fit its
\* type) the operation aborts with an error; stated for the effective APY of
\* close_leveraged_position, a close whose APY subtraction goes negative fails.
C15_Original ==
    [][(last'.op = "close_leveraged_position"
          /\ ApyUnderflows(positions[last'.user])
          /\ positions[last'.user].is_open)
         => last'.err # "Ok"]_vars

-----------------------------------------------------------------------------
(* C16: borrow, full repayment and a later borrow, in the Market and the pool *)

InitRepay == InitLending

NextRepay ==
    \/ \E t \in Times : set_clock(t)
    \/ \E u \in Lenders, amount \in SupplyAmounts : supply(u, amount)
    \/ \E u \in Traders, amount \in MarketAmounts : borrow(u, amount)
    \/ \E u \in Traders : \E amount \in RepayAmounts(u) : repay(u, amount)
    \/ \E u \in Lenders, amount \in PoolDeposits : deposit_usdc(u, amount)
    \/ \E u \in Traders, amount \in PoolAmounts : borrow_usdc(u, amount)
    \/ \E u \in Traders : \E amount \in PoolRepayAmounts(u) :
          repay_usdc(u, u, amount)

SpecRepay == InitRepay /\ [][NextRepay]_vars

\* totalOwed of borrower u in the Market at the current time
MarketOwed(u) ==
    market_total_owed(mborrowers[u],
                      do_accrue_interest(market, now).accumulated_index)

\* totalOwed of borrower u in the pool at the current time
PoolOwed(u) == pool_total_owed(pool, pborrowers[u], now)

\* C16, Market: a repay above totalOwed is rejected without change; a repay
\* of exactly totalOwed clears the principal and takes the whole prior
\* principal off total_borrowed; a borrow on a cleared account takes the
\* post-accrual index as its snapshot, so that nothing is owed beyond the
\* amount at the time of the borrow.
C16_Market ==
    [][\A u \in Users :
         /\ (last'.op = "repay" /\ last'.user = u /\ last'.amount > MarketOwed(u))
              => (last'.err # "Ok" /\ UNCHANGED marketVars)
         /\ (last'.op = "repay" /\ last'.user = u /\ last'.err = "Ok"
                /\ last'.amount = MarketOwed(u))
              => /\ mborrowers'[u].principal = 0
                 /\ market'.total_borrowed
                      = market.total_borrowed - mborrowers[u].principal
         /\ (last'.op = "borrow" /\ last'.user = u /\ last'.err = "Ok"
                /\ mborrowers[u].principal = 0)
              => /\ mborrowers'[u].principal = last'.amount
                 /\ mborrowers'[u].borrow_index = market'.accumulated_index
                 /\ market_total_owed(mborrowers'[u],
                        do_accrue_interest(market', now).accumulated_index)
                       = last'.amount]_vars

\* C16, pool: the same for repay_usdc and borrow_usdc, whose snapshot is the
\* borrow timestamp.
C16_Pool ==
    [][\A u \in Users :
         /\ (last'.op = "repay_usdc" /\ last'.user = u
                /\ pborrowers[u].borrow_timestamp <= now
                /\ last'.amount > PoolOwed(u))
              => (last'.err # "Ok" /\ UNCHANGED poolVars)
         /\ (last'.op = "repay_usdc" /\ last'.user = u /\ last'.err = "Ok"
                /\ last'.amount = PoolOwed(u))
              => /\ pborrowers'[u].amount_borrowed = 0
                 /\ pool'.total_borrowed
                      = pool.total_borrowed - pborrowers[u].amount_borrowed
         /\ (last'.op = "borrow_usdc" /\ last'.user = u /\ last'.err = "Ok"
                /\ pborrowers[u].amount_borrowed = 0)
              => /\ pborrowers'[u].amount_borrowed = last'.amount
                 /\ pborrowers'[u].borrow_timestamp = now
                 /\ pool_total_owed(pool', pborrowers'[u], now) = last'.amount]_vars

\* C16: in both lending implementations a repay above totalOwed is rejected
\* and changes nothing, a repay of exactly totalOwed clears the borrower's
\* principal and reduces the total borrowed by all of it, and a later borrow
\* accrues interest only from its own time.
C16_FullRepayResets == C16_Market /\ C16_Pool

\* A borrower who paid interest in the Market borrows again.
C16_Witness ==
    /\ last.op = "borrow" /\ last.err = "Ok"
    /\ mborrowers[last.user].principal = last.amount
    /\ mborrowers[last.user].borrow_index > RATE_SCALE
    /\ market_vault > market.total_supply - market.total_borrowed

\* A borrower who paid interest in the pool borrows again.
C16_PoolBorrowsAgain ==
    /\ last.op = "borrow_usdc" /\ last.err = "Ok"
    /\ pborrowers[last.user].amount_borrowed = last.amount
    /\ pborrowers[last.user].borrow_timestamp > StartTime
    /\ pool_vault > pool.total_liquidity - pool.total_borrowed

-----------------------------------------------------------------------------
(* C17: the Market accrues before it reads or changes its totals *)

AccruingOps == {"supply", "withdraw", "borrow", "repay"}

\* accumulated_index at the current time, from the totals before the call
PostAccrualIndex ==
    IF now <= market.last_accrued_ts THEN market.accumulated_index
    ELSE market.accumulated_index
           + index_increment(market.accumulated_index, ir_scaled_of(market),
                             now - market.last_accrued_ts)

\* C17: after a successful supply, withdraw, borrow or repay at a time
\* now >= last_accrued_ts, last_accrued_ts = now and accumulated_index is the
\* index accrued to now from the totals before the call; repay computes
\* totalOwed, and borrow the weighted entry index, from that index.
C17_AccruesFirst ==
    [][\A u \in Users :
         (last'.op \in AccruingOps /\ last'.user = u /\ last'.err = "Ok"
            /\ now >= market.last_accrued_ts)
           => /\ market'.last_accrued_ts = now
              /\ market'.accumulated_index = PostAccrualIndex
              /\ last'.op = "repay"
                   => last'.total_owed
                        = MulDiv(mborrowers[u].principal, PostAccrualIndex,
                                 Max(1, mborrowers[u].borrow_index))
              /\ (last'.op = "borrow" /\ mborrowers[u].principal > 0)
                   => mborrowers'[u].borrow_index
                        = WeightedAverage(mborrowers[u].principal,
                                          mborrowers[u].borrow_index,
                                          last'.amount, PostAccrualIndex)
              /\ (last'.op = "borrow" /\ mborrowers[u].principal = 0)
                   => mborrowers'[u].borrow_index = PostAccrualIndex]_vars

\* A repay that accrued interest in the call itself, and a second borrow at
\* a grown index.
C17_Witness ==
    /\ last.op = "repay" /\ last.err = "Ok"
    /\ last.total_owed > mborrowers[last.user].principal + last.principal_repaid
    /\ market.last_accrued_ts = now
    /\ market.accumulated_index > RATE_SCALE

-----------------------------------------------------------------------------
(* C18: a paused crucible and a paused Market *)

\* The clock moves once, past the timelock of a proposal made at StartTime.
PauseTimes == {StartTime + 31536000}

InitPause ==
    /\ InitLvf
    /\ crucible.oracle = "price_feed"

NextPause ==
    \/ \E p \in BOOLEAN : set_paused(p)
    \/ \E authorised, paused \in BOOLEAN : pause_market(authorised, paused)
    \/ \E authorised \in BOOLEAN : execute_pause(authorised)
    \/ \E t \in PauseTimes : set_clock(t)
    \/ \E u \in Lenders : mint_ctoken(u, Digits(1000000))
    \/ \E u \in Lenders : \E n \in {user_ctoken[u]} : burn_ctoken(u, n)
    \/ \E u \in Lenders : deposit_arbitrage_profit(u, 4321)
    \/ \E u \in Traders : open_leveraged_position(u, 1000, 100, TRUE)
    \/ \E u \in Traders : close_leveraged_position(u, 200, TRUE)
    \/ \E liq \in Lenders, owner \in Traders :
          liquidate_position(liq, owner, owner, FALSE, TRUE)
    \/ \E u \in Lenders, amount \in SupplyAmounts : supply(u, amount)
    \/ \E u \in Lenders : withdraw(u, 500)
    \/ \E u \in Traders : borrow(u, 300)
    \/ \E u \in Traders : repay(u, 300)

SpecPause == InitPause /\ [][NextPause]_vars

\* Errors of the account validation that runs before an instruction handler.
AccountErrors == {"AccountNotInitialized", "AccountAlreadyInUse", "AccountNotSigner"}

-----------------------------------------------------------------------------
(* C19: the inferno crucible and the borrow amount of an LP position *)

InfernoOpenInputs ==
    ({750000000} \X {750000} \X {0, 500000, 500001, 750000, 1500001}
        \X {100, 150, 200} \X {100} \X {TRUE})
    \cup {<<999, 750000, 0, 100, 100, TRUE>>,
          <<750000000, 750000, 0, 201, 100, TRUE>>,
          <<750000000, 750001, 0, 100, 10001, TRUE>>,
          <<750000000, 1000, 0, 100, 100, TRUE>>,
          <<750000000, 750000, 0, 100, 100, FALSE>>}

IApply(o) ==
    LET changed == (o.st # inferno)
    IN  /\ (changed => nops < MaxLvfOps)
        /\ inferno' = o.st
        /\ last' = o.res
        /\ nops' = IF changed THEN nops + 1 ELSE nops
        /\ UNCHANGED <<now, slot, oracle, positions, base_tokens, lp_accounts,
                       ctokVars, ctokHist, marketVars, poolVars>>

open_inferno_lp_position(u, base_amount, usdc_amount, borrowed_usdc, leverage_factor, max_slippage_bps, some) ==
    \E o \in {open_inferno_lp_position_result(inferno, u, base_amount, usdc_amount,
                    borrowed_usdc, leverage_factor, max_slippage_bps,
                    OracleAccount(some, oracle), now, slot)} :
        IApply([o EXCEPT !.res.oracle_some = some])

InitInferno == InitLvf

\* Feed contents published in front of open_inferno_lp_position: 1.00, 1.0001
\* and 0.40 USD, and 1.00 USD with a 6% confidence interval.
InfernoQuotes ==
    {q \in Quotes : \/ q.price \in {100000000, 100010000} /\ q.conf = 0
                    \/ q.price = 40000000 /\ q.conf = 0
                    \/ q.price = 100000000 /\ q.conf = 6000000}

NextInferno ==
    \/ \E u \in Traders, i \in InfernoOpenInputs :
          open_inferno_lp_position(u, i[1], i[2], i[3], i[4], i[5], i[6])
    \/ \E q \in InfernoQuotes : publish_price(q)
    \/ \E d \in SlotSteps : advance_slots(d)

SpecInferno == InitInferno /\ [][NextInferno]_vars

\* The price the call of last' is given, and the values the claim names.
InfernoPrice ==
    get_oracle_price(inferno, OracleAccount(last'.oracle_some, oracle), now)

InfernoBaseValue == MulDiv(last'.base_amount, InfernoPrice.price, LAMPORTS_PER_SOL)

\* (base_value + usdc_amount - borrowed_usdc) * (leverage_factor - 100) / 100
InfernoRecomputed ==
    ((InfernoBaseValue + last'.usdc_amount - last'.amount)
        * (last'.leverage - 100)) \div 100

\* The call of last' passes every check made before the recomputation.
ReachesRecomputation ==
    /\ ~inferno.positions[last'.user].initialized
    /\ ~inferno.paused
    /\ last'.max_slippage_bps <= 10000
    /\ last'.base_amount >= MIN_LP_BASE_AMOUNT
    /\ last'.usdc_amount >= MIN_LP_USDC_AMOUNT
    /\ last'.leverage >= MIN_LEVERAGE_BPS /\ last'.leverage <= MAX_LEVERAGE_BPS
    /\ InfernoPrice.ok
    /\ LET d == IF InfernoBaseValue > last'.usdc_amount
                THEN InfernoBaseValue - last'.usdc_amount
                ELSE last'.usdc_amount - InfernoBaseValue
       IN  MulDiv(d, 10000, Max(InfernoBaseValue, last'.usdc_amount))
              <= last'.max_slippage_bps
    /\ last'.amount <= InfernoBaseValue + last'.usdc_amount

-----------------------------------------------------------------------------
(* C20: the exchange rate stored in the Crucible account *)

LpFeeRates == {0, 200}
\* <<base_amount, usdc_amount, max_slippage_bps, position_nonce, oracle passed>>
LpOpenInputs ==
    {<<1000, 1000, 100, 0, TRUE>>, <<2000, 2000, 100, 1, TRUE>>,
     <<30000, 30000, 0, 0, TRUE>>, <<1000, 1002, 100, 1, TRUE>>,
     <<999, 1000, 100, 0, TRUE>>, <<1000, 1200, 100, 0, TRUE>>,
     <<1000, 1000, 10001, 0, TRUE>>, <<1000, 1000, 100, 0, FALSE>>}

\* Feed contents published in front of open_lp_position: 1.00 and 0.40 USD.
LpQuotes == {q \in Quotes : q.price \in {100000000, 40000000} /\ q.conf = 0}

LpApply(o) ==
    LET changed == (o.st # LpState)
    IN  /\ (changed => nops < MaxLvfOps)
        /\ crucible' = o.st.crucible
        /\ vault_amount' = o.st.vault_amount
        /\ treasury_amount' = o.st.treasury_amount
        /\ base_tokens' = o.st.base_tokens
        /\ usdc' = o.st.usdc
        /\ lp_accounts' = o.st.lp
        /\ last' = o.res
        /\ pending_mint' = NoPending
        /\ nops' = IF changed THEN nops + 1 ELSE nops
        /\ UNCHANGED <<now, slot, oracle, ctoken_supply, user_ctoken, positions,
                       inferno, marketVars, pool, pool_vault, pborrowers>>

open_lp_position(u, base_amount, usdc_amount, max_slippage_bps, position_nonce, some) ==
    \E o \in {open_lp_position_result(LpState, u, base_amount, usdc_amount,
                    max_slippage_bps, position_nonce,
                    OracleAccount(some, oracle), now, slot)} :
        LpApply([o EXCEPT !.res.oracle_some = some])

InitLp ==
    /\ crucible \in [total_base_deposited : {0}, total_fees_accrued : {0},
                     expected_vault_balance : {0}, fee_rate : LpFeeRates,
                     paused : {FALSE}, total_leveraged_positions : {0},
                     oracle : {"price_feed"}]
    /\ vault_amount = 0
    /\ ctoken_supply = 0
    /\ user_ctoken = [u \in Users |-> 0]
    /\ treasury_amount = 0
    /\ last = NoCall
    /\ pending_mint = NoPending
    /\ nops = 0
    /\ LendingIdle
    /\ LvfIdle

NextLp ==
    \/ \E u \in Lenders : \E a \in MintAmounts : mint_ctoken(u, Digits(a))
    \/ \E u \in Lenders : \E n \in {user_ctoken[u]} : burn_ctoken(u, n)
    \/ \E u \in Lenders, amount \in ArbAmounts : deposit_arbitrage_profit(u, amount)
    \/ \E u \in Traders, i \in LpOpenInputs :
          open_lp_position(u, i[1], i[2], i[3], i[4], i[5])
    \/ \E q \in LpQuotes : publish_price(q)

SpecLp == InitLp /\ [][NextLp]_vars

\* (total_base_deposited + total_fees_accrued) * 1_000_000 / cToken supply,
\* 1_000_000 at zero supply
CurrentExchangeRate ==
    IF ctoken_supply = 0 THEN 1000000
    ELSE MulDiv(crucible.total_base_deposited + crucible.total_fees_accrued,
                1000000, ctoken_supply)

\* C20: in every reachable state the stored field crucible.exchange_rate
\* equals (total_base_deposited + total_fees_accrued) * 1_000_000 / cToken
\* supply, or 1_000_000 at zero supply, and so the entry_exchange_rate that
\* open_lp_position has just recorded is the vault's current exchange rate.
C20_Original ==
    /\ lp_accounts.exchange_rate = CurrentExchangeRate
    /\ (last.op = "open_lp_position" /\ last.err = "Ok")
          => lp_accounts.positions[<<last.user, last.nonce>>].entry_exchange_rate
                = CurrentExchangeRate

-----------------------------------------------------------------------------
(* C21: the borrowed totals and the borrowers' principals *)

\* Both users borrow and repay, in the Market and in the pool.
InitDebt == InitLending

NextDebt ==
    \/ \E t \in Times : set_clock(t)
    \/ \E u \in Lenders, amount \in SupplyAmounts : supply(u, amount)
    \/ \E u \in Users, amount \in MarketAmounts : borrow(u, amount)
    \/ \E u \in Users : \E amount \in RepayAmounts(u) : repay(u, amount)
    \/ \E u \in Lenders, amount \in PoolDeposits : deposit_usdc(u, amount)
    \/ \E u \in Users, amount \in PoolAmounts : borrow_usdc(u, amount)
    \/ \E u \in Users : \E amount \in PoolRepayAmounts(u) :
          repay_usdc(u, u, amount)

SpecDebt == InitDebt /\ [][NextDebt]_vars

RECURSIVE SumOver(_, _)
SumOver(f, S) ==
    IF S = {} THEN 0
    ELSE LET u == CHOOSE x \in S : TRUE IN f[u] + SumOver(f, S \ {u})

\* C21: after any sequence of borrow and repay calls by any borrowers,
\* Market.total_borrowed is the sum of the borrowers' principals and
\* LendingPool.total_borrowed is the sum of the borrowers' amount_borrowed.
C21_TotalsArePrincipalSums ==
    /\ market.total_borrowed
          = SumOver([u \in Users |-> mborrowers[u].principal], Users)
    /\ pool.total_borrowed
          = SumOver([u \in Users |-> pborrowers[u].amount_borrowed], Users)

\* Two borrowers owe interest-bearing debt in the Market and one of them has
\* just repaid part of it.
C21_Witness ==
    /\ last.op = "repay" /\ last.err = "Ok"
    /\ last.principal_repaid < last.amount
    /\ \A u \in Users : mborrowers[u].principal > 0

\* Two borrowers owe debt in the pool and one of them has just repaid part.
C21_PoolPartialRepay ==
    /\ last.op = "repay_usdc" /\ last.err = "Ok"
    /\ last.principal_repaid < last.amount
    /\ \A u \in Users : pborrowers[u].amount_borrowed > 0

-----------------------------------------------------------------------------
(* C22: the value of the outstanding cTokens and the vault's balance *)

\* Only mint_ctoken, burn_ctoken and deposit_arbitrage_profit: no token moves
\* into or out of the vault except through them.
InitCtoken == Init

NextCtoken ==
    \/ \E u \in Users, amount \in MintAmounts : mint_ctoken(u, Digits(amount))
    \/ \E u \in Users : \E n \in BurnAmounts(u) : burn_ctoken(u, n)
    \/ \E u \in Users, amount \in ArbAmounts : deposit_arbitrage_profit(u, amount)

SpecCtoken == InitCtoken /\ [][NextCtoken]_vars

\* supply * rate / 1_000_000 at the current exchange rate
OutstandingValue == base_for(ctoken_supply, CurrentRate.rate)

\* C22 (as stated): after any sequence of mint_ctoken, burn_ctoken and
\* deposit_arbitrage_profit calls, the base-token value of all outstanding
\* cTokens at the current exchange rate is at most the vault's token balance,
\* and a holder who burns their whole balance does not fail with
\* InsufficientLiquidity.
C22_Original ==
    /\ OutstandingValue <= vault_amount
    /\ (last.op = "burn_ctoken" /\ last.amount = user_ctoken[last.user])
          => last.err # "InsufficientLiquidity"

-----------------------------------------------------------------------------
(* C23: a partial repay in the Market *)

\* total owed of the last caller at the Market's stored index
OwedAtStoredIndex ==
    market_total_owed(mborrowers[last.user], market.accumulated_index)

\* what integer division can add to the remaining debt: one unit of principal
\* kept by the rounding of principal_repaid, at the index ratio
RepayRounding ==
    market.accumulated_index \div Max(1, mborrowers[last.user].borrow_index) + 1

\* C23: right after a repay of less than the total owed, the borrower's total
\* owed at the same index is the total owed before minus the amount, up to
\* integer rounding, and never less than that.
C23_PartialRepayKeepsEntryPoint ==
    (last.op = "repay" /\ last.err = "Ok" /\ last.amount < last.total_owed)
        => /\ OwedAtStoredIndex >= last.total_owed - last.amount
           /\ OwedAtStoredIndex <= last.total_owed - last.amount + RepayRounding

\* A partial repay of a debt that has accrued interest.
C23_Witness ==
    /\ last.op = "repay" /\ last.err = "Ok" /\ last.amount < last.total_owed
    /\ last.principal_repaid < last.amount
    /\ mborrowers[last.user].principal > 0

-----------------------------------------------------------------------------
(* C24: a partial repay_usdc in the pool *)

\* C24 (as stated): right after a repay_usdc of less than the total owed, the
\* borrower's total owed at the same timestamp is the total owed before minus
\* the amount, up to integer rounding, and the debt has not gone down by more
\* than the amount.
C24_Original ==
    (last.op = "repay_usdc" /\ last.err = "Ok" /\ last.amount < last.total_owed)
        => /\ PoolOwed(last.user) >= last.total_owed - last.amount
           /\ PoolOwed(last.user) <= last.total_owed - last.amount + 2

-----------------------------------------------------------------------------
(* C25: a second borrow on a debt that has accrued interest *)

BigSupply == 4000000
BigBorrow == 1000000

\* A market with a utilisation-dependent rate, one lender and one borrower.
InitBorrowAgain ==
    /\ InitLending
    /\ market.interest_model.base_rate_bps = 200

NextBorrowAgain ==
    \/ \E t \in Times : set_clock(t)
    \/ accrue_interest
    \/ \E u \in Lenders : supply(u, BigSupply)
    \/ \E u \in Traders, amount \in {BigBorrow, BigBorrow \div 2} : borrow(u, amount)
    \/ \E u \in Traders : \E amount \in RepayAmounts(u) : repay(u, amount)

SpecBorrowAgain == InitBorrowAgain /\ [][NextBorrowAgain]_vars

\* C25 (as stated): when a borrower with existing debt borrows again, the
\* total owed immediately after the borrow is the total owed just before it
\* plus the new amount, up to integer rounding.  This is the claim's formula
\* oldPrincipal * index / oldIndex + amount * index / indexAtSecondBorrow at
\* index = indexAtSecondBorrow.
C25_Original ==
    [][\A u \in Users :
         (/\ last'.op = "borrow" /\ last'.err = "Ok" /\ last'.user = u
          /\ mborrowers[u].principal > 0)
            => LET index == market'.accumulated_index
                   before == market_total_owed(mborrowers[u], index)
                   after == market_total_owed(mborrowers'[u], index)
               IN  /\ after >= before + last'.amount - 2
                   /\ after <= before + last'.amount + 2]_vars

-----------------------------------------------------------------------------
(* C26: the loan of a position that is closed *)

\* <<collateral_amount, leverage_factor>>
DriftOpenInputs == {<<1000000, 185>>, <<1000, 100>>}

\* half a year of slots at 400 ms each, and the same with an hour more on the
\* wall clock
DriftTimes == {StartTime + 15768000, StartTime + 15768000 + 3600}
DriftQuotes == {[price |-> 100000000, expo |-> -8, conf |-> 0, publish_time |-> 0]}

\* The cluster's slot and its wall clock advance separately: a slot takes
\* 400 ms on average only, and unix_timestamp is a stake-weighted estimate.
InitDrift == InitVault

NextDrift ==
    \/ \E u \in Lenders, amount \in PoolDeposits :
          nops < MaxLvfOps /\ deposit_usdc(u, amount)
    \/ \E u \in Traders, i \in DriftOpenInputs :
          open_leveraged_position(u, i[1], i[2], TRUE)
    \/ \E u \in Traders, i \in CloseInputs :
          close_leveraged_position(u, i[1], i[2])
    \/ \E q \in DriftQuotes : publish_price(q)
    \/ \E d \in SlotSteps : advance_slots(d)
    \/ \E t \in DriftTimes : set_clock(t)

SpecDrift == InitDrift /\ [][NextDrift]_vars

\* C26 (as stated): after close_leveraged_position succeeds for a position
\* with borrowed_usdc > 0 that is its owner's only borrowing, the owner's
\* outstanding principal in the lending pool is 0, whatever the relation
\* between the elapsed slots and the elapsed wall-clock seconds.
C26_Original ==
    (/\ last.op = "close_leveraged_position" /\ last.err = "Ok"
     /\ positions[last.user].borrowed_usdc > 0)
        => pborrowers[last.user].amount_borrowed = 0

-----------------------------------------------------------------------------
(* C27: the slippage check of close_leveraged_position *)

\* |currentValue - entryValue| * 10000 / entryValue of u's position at the
\* configured oracle's price; a close leaves the oracle, the clock and these
\* fields of the position as they were.
CloseSlippageBps(u) ==
    LET pos == positions[u]
        p == get_oracle_price(crucible, OracleAccount(TRUE, oracle), now)
        current_value == MulDiv(pos.collateral, p.price, 1000000)
        entry_value == MulDiv(pos.collateral, pos.entry_price, 1000000)
    IN  MulDiv(IF current_value > entry_value THEN current_value - entry_value
               ELSE entry_value - current_value, 10000, entry_value)

\* C27 (as stated): close_leveraged_position is rejected with
\* SlippageExceeded exactly when |currentValue - entryValue| * 10000 /
\* entryValue > max_slippage_bps: a close that succeeds is within the bound,
\* and a close rejected for slippage is beyond it, so that a close at an
\* unchanged price is not rejected for slippage whatever max_slippage_bps is.
C27_Original ==
    /\ (last.op = "close_leveraged_position" /\ last.err = "Ok")
          => CloseSlippageBps(last.user) <= last.amount
    /\ (last.op = "close_leveraged_position" /\ last.err = "SlippageExceeded")
          => CloseSlippageBps(last.user) > last.amount

-----------------------------------------------------------------------------
(* C28: the vault balance and the band calculate_exchange_rate accepts *)

\* <<collateral_amount, leverage_factor>>
BandOpenInputs == {<<1000, 100>>, <<1000000, 100>>}

\* Only instructions of the crucible program move tokens of the vault.
InitBand == InitVault

NextBand ==
    \/ \E u \in Lenders : \E a \in MintAmounts : mint_ctoken(u, Digits(a))
    \/ \E u \in Lenders : \E n \in {user_ctoken[u]} : burn_ctoken(u, n)
    \/ \E u \in Lenders, amount \in ArbAmounts : deposit_arbitrage_profit(u, amount)
    \/ \E u \in Traders, i \in BandOpenInputs :
          open_leveraged_position(u, i[1], i[2], TRUE)
    \/ \E u \in Traders, i \in CloseInputs :
          close_leveraged_position(u, i[1], i[2])
    \/ \E d \in SlotSteps : advance_slots(d)

SpecBand == InitBand /\ [][NextBand]_vars

\* C28 (as stated): with protocol operations only, the vault balance is at
\* least expected_vault_balance and exceeds it by at most
\* expected_vault_balance when that is positive, and no mint_ctoken or
\* burn_ctoken fails with VaultBalanceMismatch.
C28_Original ==
    /\ vault_amount >= crucible.expected_vault_balance
    /\ crucible.expected_vault_balance > 0
          => vault_amount - crucible.expected_vault_balance
                <= crucible.expected_vault_balance
    /\ last.op \in {"mint_ctoken", "burn_ctoken"}
          => last.err # "VaultBalanceMismatch"

-----------------------------------------------------------------------------
(* C29: the integer square root of open_lp_position and close_lp_position *)

MaxProduct == 120
\* base_value * usdc_value of positions of 1_000 and 1_000, 1_000 and 1_002
Products == (1..MaxProduct) \cup {1000000, 1002000}

\* The loop's locals after `let mut guess = product; let mut prev_guess = 0`,
\* kept in the record of the running call.
InitNewton ==
    /\ crucible = [total_base_deposited |-> 0, total_fees_accrued |-> 0,
                   expected_vault_balance |-> 0, fee_rate |-> 0,
                   paused |-> FALSE, total_leveraged_positions |-> 0,
                   oracle |-> "price_feed"]
    /\ vault_amount = 0
    /\ ctoken_supply = 0
    /\ user_ctoken = [u \in Users |-> 0]
    /\ treasury_amount = 0
    /\ pending_mint = NoPending
    /\ nops = 0
    /\ LendingIdle
    /\ LvfIdle
    /\ \E product \in Products :
          last = [op |-> "newton_sqrt", err |-> "Ok", product |-> product,
                  guess |-> product, prev_guess |-> 0]

\* while guess != prev_guess { prev_guess = guess; guess = ... }
newton_step ==
    /\ last.guess # last.prev_guess
    /\ last' = [last EXCEPT !.prev_guess = last.guess,
                            !.guess = newton_next(last.product, last.guess)]
    /\ UNCHANGED <<nops, now, ctokVars, ctokHist, marketVars, poolVars, lvfVars>>

NextNewton == newton_step

SpecNewton == InitNewton /\ [][NextNewton]_vars

\* The loop keeps running while its condition holds.
SpecNewtonLive == SpecNewton /\ WF_vars(newton_step)

NewtonDone == last.guess = last.prev_guess

\* C29 (as stated): for every product >= 1 the loop terminates, and it ends
\* with guess = floor(sqrt(product)).
C29_Original ==
    /\ <>NewtonDone
    /\ [](NewtonDone => /\ last.guess * last.guess <= last.product
                        /\ (last.guess + 1) * (last.guess + 1) > last.product)

-----------------------------------------------------------------------------
(* C30: a position that has just been opened *)

\* <<collateral_amount, leverage_factor>>
FreshOpenInputs == {<<1000, 100>>, <<1000000, 150>>, <<1000000, 185>>,
                    <<1000000, 186>>, <<1000000, 200>>}

\* No slot passes and the oracle keeps its quote: every call is made in the
\* slot and at the price of the open.
InitFresh == InitVault

NextFresh ==
    \/ \E u \in Lenders, amount \in PoolDeposits :
          nops < MaxLvfOps /\ deposit_usdc(u, amount)
    \/ \E u \in Traders, i \in FreshOpenInputs :
          open_leveraged_position(u, i[1], i[2], TRUE)
    \/ \E owner \in Traders, some \in BOOLEAN : health_check(owner, some)
    \/ \E liq \in Users, owner \in Traders, i \in LiquidateInputs :
          \E position_owner \in {liq, owner} :
              liquidate_position(liq, owner, position_owner, i[1], i[2])

SpecFresh == InitFresh /\ [][NextFresh]_vars

\* ltv_bps of u's position, as liquidate_position computes it now
FreshLtvBps(u) ==
    lvf_ltv_bps(positions[u],
                MulDiv(positions[u].collateral,
                       get_oracle_price(crucible, OracleAccount(TRUE, oracle),
                                        now).price, 1000000),
                slot)

\* C30 (as stated): in the slot and at the oracle price of its open, a
\* position opened with any allowed leverage_factor does not pass the
\* threshold check of liquidate_position.
C30_Original ==
    /\ \A u \in Traders :
          (positions[u].is_open /\ positions[u].created_at = slot)
             => ~liquidation_threshold_passed(FreshLtvBps(u))
    /\ last.op = "liquidate_position"
          => ~liquidation_threshold_passed(last.ltv_bps)

-----------------------------------------------------------------------------
(* C31, C32: closing and liquidating inferno LP positions *)

MaxInfernoOps == 5

\* <<base_amount, usdc_amount, borrowed_usdc, leverage_factor, max_slippage_bps>>:
\* 1.5x on a balanced pair, unleveraged, and 2x on a pair that is nearly all
\* base token.
InfernoCloseOpenInputs ==
    {<<750000000, 750000, 500000, 150, 100>>,
     <<750000000, 750000, 0, 100, 100>>,
     <<750000000, 1000, 375500, 200, 10000>>}

\* 1.00 and 0.40 USD
InfernoCloseQuotes ==
    {q \in Quotes : q.price \in {100000000, 40000000} /\ q.conf = 0 /\ q.expo = -8}

InfernoState == [inf |-> inferno, pool |-> pool, pool_vault |-> pool_vault,
                 pborrowers |-> pborrowers]

ICApply(o) ==
    LET changed == (o.st # InfernoState)
    IN  /\ (changed => nops < MaxInfernoOps)
        /\ inferno' = o.st.inf
        /\ usdc' = o.st.inf.usdc
        /\ pool' = o.st.pool
        /\ pool_vault' = o.st.pool_vault
        /\ pborrowers' = o.st.pborrowers
        /\ last' = o.res
        /\ nops' = IF changed THEN nops + 1 ELSE nops
        /\ UNCHANGED <<now, slot, oracle, positions, base_tokens, lp_accounts,
                       ctokVars, ctokHist, marketVars>>

inferno_deposit_usdc(u, amount) ==
    \E o \in {deposit_usdc_result(InfernoPool(InfernoState), u, amount)} :
        ICApply([st |-> WithInfernoPool(InfernoState, o.st), res |-> o.res])

inferno_borrow_usdc(u, amount) ==
    \E o \in {borrow_usdc_result(InfernoPool(InfernoState), u, u, amount, now)} :
        ICApply([st |-> WithInfernoPool(InfernoState, o.st), res |-> o.res])

inferno_open(u, base_amount, usdc_amount, borrowed_usdc, leverage_factor, max_slippage_bps) ==
    \E o \in {open_inferno_lp_position_result(inferno, u, base_amount, usdc_amount,
                    borrowed_usdc, leverage_factor, max_slippage_bps,
                    OracleAccount(TRUE, oracle), now, slot)} :
        ICApply([st |-> [InfernoState EXCEPT !.inf = o.st],
                 res |-> [o.res EXCEPT !.oracle_some = TRUE]])

close_inferno_lp_position(user, owner, ba, max_slippage_bps) ==
    \E o \in {close_inferno_lp_position_result(InfernoState, user, owner, ba,
                    max_slippage_bps, OracleAccount(TRUE, oracle), now, slot)} :
        ICApply([o EXCEPT !.res.oracle_some = TRUE])

liquidate_inferno_lp_position(user, owner, ba, max_slippage_bps) ==
    \E o \in {liquidate_inferno_lp_position_result(InfernoState, user, owner, ba,
                    max_slippage_bps, OracleAccount(TRUE, oracle), now, slot)} :
        ICApply([o EXCEPT !.res.oracle_some = TRUE])

InitInfernoClose == InitVault

NextInfernoClose ==
    \/ \E u \in Lenders : inferno_deposit_usdc(u, 3000000)
    \/ \E u \in Traders : inferno_borrow_usdc(u, 500000)
    \/ \E u \in Users, i \in InfernoCloseOpenInputs :
          inferno_open(u, i[1], i[2], i[3], i[4], i[5])
    \/ \E user \in Users, owner \in Users, ba \in Users, m \in {100, 10000} :
          close_inferno_lp_position(user, owner, ba, m)
    \/ \E user \in Users, owner \in Users :
          liquidate_inferno_lp_position(user, owner, user, 10000)
    \/ \E q \in InfernoCloseQuotes : publish_price(q)

SpecInfernoClose == InitInfernoClose /\ [][NextInfernoClose]_vars

\* C31, as the claim states it: a liquidate_inferno_lp_position on an open
\* position whose ltv_bps is at least 9,000, signed by somebody other than
\* the owner of the position, is not turned down as Unauthorized.
C31_Original ==
    (/\ last.op = "liquidate_inferno_lp_position"
     /\ last.was_open
     /\ last.ltv_bps >= INFERNO_LIQUIDATION_THRESHOLD_BPS
     /\ last.user # last.owner)
        => last.err # "Unauthorized"

\* The USDC of the open inferno positions
RECURSIVE InfernoOpenUsdc(_)
InfernoOpenUsdc(S) ==
    IF S = {} THEN 0
    ELSE LET u == CHOOSE x \in S : TRUE
             pos == inferno.positions[u]
         IN  (IF pos.is_open THEN pos.usdc_amount ELSE 0) + InfernoOpenUsdc(S \ {u})

\* C32, as the claim states it: a successful close takes out of the USDC vault
\* (returned USDC + protocol fee + repayment) no more than the position's net
\* USDC plus its vault fee share at open, which is below 1% of the net USDC;
\* afterwards expected_usdc_vault_balance still covers the USDC of the
\* positions that remain open.
C32_Original ==
    (/\ last.op \in {"close_inferno_lp_position", "liquidate_inferno_lp_position"}
     /\ last.err = "Ok")
        => /\ last.usdc_vault_out = last.usdc_to_return + last.protocol_fee_usdc
                                       + last.repay_amount
           /\ last.usdc_vault_out <= last.usdc_amount + last.usdc_amount \div 100
           /\ inferno.expected_usdc_vault_balance >= InfernoOpenUsdc(Users)

-----------------------------------------------------------------------------
(* C33: the Market's loans and the suppliers' withdrawals *)

InitSolvent == InitLending

\* A supplier asks for what the vault holds, for 500 or for all its receipts.
SolventWithdrawals(u) == {market_vault, 500, receipts[u]}

NextSolvent ==
    \/ \E t \in Times : set_clock(t)
    \/ accrue_interest
    \/ \E u \in Lenders, amount \in SupplyAmounts : supply(u, amount)
    \/ \E u \in Lenders : \E amount \in SolventWithdrawals(u) : withdraw(u, amount)
    \/ \E u \in Traders : \E amount \in BorrowAmounts : borrow(u, amount)
    \/ \E u \in Traders : \E amount \in RepayAmounts(u) : repay(u, amount)

SpecSolvent == InitSolvent /\ [][NextSolvent]_vars

\* C33, as the claim states it: total_borrowed <= total_supply in every
\* reachable state of the Market, the vault transfers failing on an
\* insufficient balance.
C33_Original == market.total_borrowed <= market.total_supply

-----------------------------------------------------------------------------
(* C34: the exchange rate over mint, burn and arbitrage deposits *)

\* The rate calculate_exchange_rate returns after the step
RateAfter == calculate_exchange_rate(crucible', vault_amount', ctoken_supply')

\* C34: a successful mint_ctoken, burn_ctoken or deposit_arbitrage_profit, by
\* any caller, that starts and ends with a cToken supply above zero does not
\* lower the rate calculate_exchange_rate returns.
C34_RateNeverDecreases ==
    [][(/\ last'.op \in CtokenOps /\ last'.err = "Ok"
        /\ ctoken_supply > 0 /\ ctoken_supply' > 0
        /\ CurrentRate.ok /\ RateAfter.ok)
          => RateAfter.rate >= CurrentRate.rate]_vars

\* A holder burned cTokens while the other user holds some, and the rate is
\* now above the rate the burn was paid at.
C34_Witness ==
    /\ last.op = "burn_ctoken" /\ last.err = "Ok"
    /\ \E u \in Users \ {last.user} : user_ctoken[u] > 0
    /\ CurrentRate.ok
    /\ CurrentRate.rate > last.exchange_rate

-----------------------------------------------------------------------------
(* C35: transfers into the crucible vault from outside *)

\* C35, as the claim states it: with a vault that holds its expected balance
\* or more, whatever a third party has transferred into it, mint_ctoken and
\* burn_ctoken do not fail on the vault's balance.
C35_Original ==
    (/\ last.op \in {"mint_ctoken", "burn_ctoken"}
     /\ vault_amount >= crucible.expected_vault_balance)
        => last.err # "VaultBalanceMismatch"

-----------------------------------------------------------------------------
(* C36: what a successful liquidate_position seizes *)

\* <<collateral_amount, leverage_factor>>
SeizeOpenInputs == {<<1000000, 185>>, <<1234567, 185>>, <<1000000, 200>>}
SeizeQuotes ==
    {q \in Quotes : q.price \in {100000000, 99985000, 40000000}
                      /\ q.conf = 0 /\ q.expo = -8}
SeizeDeposit == 3000000

\* The lending pool already holds a lender's deposit_usdc of SeizeDeposit; the
\* position owner can take a loan of her own from it (borrow_usdc) next to
\* the one her position draws, so that the repay_usdc of a liquidation, which
\* pays the position's debt plus the bonus, stays within what she owes.
InitSeize ==
    /\ crucible \in [total_base_deposited : {0}, total_fees_accrued : {0},
                     expected_vault_balance : {0}, fee_rate : VaultFeeRates,
                     paused : {FALSE}, total_leveraged_positions : {0},
                     oracle : {"price_feed"}]
    /\ vault_amount = 0
    /\ ctoken_supply = 0
    /\ user_ctoken = [u \in Users |-> 0]
    /\ treasury_amount = 0
    /\ last = VNoCall
    /\ pending_mint = NoPending
    /\ nops = 0
    /\ now = StartTime
    /\ market = NewMarket([base_rate_bps |-> 0, slope1_bps |-> 0,
                           slope2_bps |-> 0, kink_bps |-> 8000], StartTime)
    /\ market_vault = 0
    /\ receipts = [u \in Users |-> 0]
    /\ mborrowers = [u \in Users |-> NoMarketBorrower]
    /\ \E d \in {deposit_usdc_result(
                    [pool |-> NewPool(0), pool_vault |-> 0,
                     pborrowers |-> [u \in Users |-> NoPoolBorrower],
                     usdc |-> [u \in Users |-> InitialUsdc]],
                    "bob", SeizeDeposit).st} :
          /\ pool = d.pool
          /\ pool_vault = d.pool_vault
          /\ pborrowers = d.pborrowers
          /\ usdc = d.usdc
    /\ LvfIdle

NextSeize ==
    \/ \E u \in Traders, i \in SeizeOpenInputs :
          open_leveraged_position(u, i[1], i[2], TRUE)
    \/ \E u \in Traders, amount \in PoolAmounts : borrow_usdc(u, amount)
    \/ \E q \in SeizeQuotes : publish_price(q)
    \/ \E d \in SlotSteps : advance_slots(d)
    \/ \E liq \in Users, owner \in Traders, co_signed \in BOOLEAN :
          \E position_owner \in {liq, owner} :
              liquidate_position(liq, owner, position_owner, co_signed, TRUE)

SpecSeize == InitSeize /\ [][NextSeize]_vars

\* C36 (as stated): a successful liquidate_position hands the liquidator
\* min(position.collateral, (debtOwed + bonus) * 1_000_000 / currentPrice) of
\* collateral, with bonus = debtOwed * 500 / 10_000; afterwards the position
\* is closed, owes nothing, holds its collateral less the seized amount, and
\* total_leveraged_positions is one lower.
C36_Original ==
    [][(last'.op = "liquidate_position" /\ last'.err = "Ok" /\ nops' = nops + 1)
          => /\ last'.paid_out =
                   Min(last'.collateral,
                       MulDiv(last'.total_debt
                                 + MulDiv(last'.total_debt, 500, 10000),
                              1000000, last'.price))
             /\ \E u \in Traders :
                   /\ positions[u].is_open
                   /\ ~positions'[u].is_open
                   /\ positions'[u].borrowed_usdc = 0
                   /\ positions'[u].collateral
                         = positions[u].collateral - last'.paid_out
                   /\ base_tokens'[last'.user]
                         = base_tokens[last'.user] + last'.paid_out
             /\ crucible'.total_leveraged_positions
                   = crucible.total_leveraged_positions - 1]_vars

-----------------------------------------------------------------------------
(* C37: what open_leveraged_position records and borrows *)

InitOpen == InitVault

NextOpen ==
    \/ \E u \in Lenders, amount \in PoolDeposits :
          nops < MaxLvfOps /\ deposit_usdc(u, amount)
    \/ \E u \in Users, i \in OpenLeveragedInputs :
          open_leveraged_position(u, i[1], i[2], TRUE)
    \/ \E q \in OpenQuotes : publish_price(q)

SpecOpen == InitOpen /\ [][NextOpen]_vars

\* price_scaled of the price account, as the open of this step reads it
OpenPrice == Number(oracle.reading.price_scaled)

OpenBorrowed ==
    MulDiv(MulDiv(last'.amount, OpenPrice, 1000000), last'.leverage - 100, 100)

-----------------------------------------------------------------------------
(* C38: the rate do_accrue_interest charges *)

KinkedModels ==
    RateModels \cup
    {[base_rate_bps |-> 150, slope1_bps |-> 433, slope2_bps |-> 7777, kink_bps |-> 7999],
     [base_rate_bps |-> 0, slope1_bps |-> 3000, slope2_bps |-> 100, kink_bps |-> 5000]}

\* <<total_supply, total_borrowed>>: an empty market, utilization below, at,
\* just above and far above the kinks, and a market drawn beyond its supply.
Utilizations ==
    {<<0, 0>>, <<3, 1>>, <<3, 2>>, <<4000, 0>>, <<4000, 1999>>, <<4000, 2000>>,
     <<4000, 2001>>, <<4000, 3199>>, <<4000, 3200>>, <<4000, 3201>>,
     <<4000, 4000>>, <<10000, 7998>>, <<10000, 7999>>, <<10000, 8000>>,
     <<3700, 3728>>}

\* A Market after supplies and borrows, last accrued at StartTime.
InitRate ==
    /\ crucible = [total_base_deposited |-> 0, total_fees_accrued |-> 0,
                   expected_vault_balance |-> 0, fee_rate |-> 0,
                   paused |-> FALSE, total_leveraged_positions |-> 0,
                   oracle |-> "price_feed"]
    /\ vault_amount = 0
    /\ ctoken_supply = 0
    /\ user_ctoken = [u \in Users |-> 0]
    /\ treasury_amount = 0
    /\ last = LNoCall
    /\ pending_mint = NoPending
    /\ nops = 0
    /\ now = StartTime
    /\ \E im \in KinkedModels, x \in Utilizations :
          market = [NewMarket(im, StartTime) EXCEPT !.total_supply = x[1],
                                                    !.total_borrowed = x[2]]
    /\ market_vault = 0
    /\ receipts = [u \in Users |-> 0]
    /\ mborrowers = [u \in Users |-> NoMarketBorrower]
    /\ pool = NewPool(0)
    /\ pool_vault = 0
    /\ pborrowers = [u \in Users |-> NoPoolBorrower]
    /\ usdc = [u \in Users |-> InitialUsdc]
    /\ LvfIdle

NextRate ==
    \/ \E t \in Times : set_clock(t)
    \/ accrue_interest

SpecRate == InitRate /\ [][NextRate]_vars

\* The annual rate as stated, in RATE_SCALE fixed point, at utilization
\* util_scaled under interest model im.
StatedRate(im, util_scaled) ==
    IF util_scaled < bps_scaled(im.kink_bps)
    THEN bps_scaled(im.base_rate_bps)
            + MulDiv(util_scaled, bps_scaled(im.slope1_bps), RATE_SCALE)
    ELSE bps_scaled(im.base_rate_bps)
            + MulDiv(bps_scaled(im.kink_bps), bps_scaled(im.slope1_bps), RATE_SCALE)
            + MulDiv(util_scaled - bps_scaled(im.kink_bps),
                     bps_scaled(im.slope2_bps), RATE_SCALE)

StatedUtilization(m) ==
    MulDiv(m.total_borrowed, RATE_SCALE, IF m.total_supply > 1 THEN m.total_supply ELSE 1)

\* The market's interest model at the borrowing x = <<total_supply, total_borrowed>>
MarketAt(x) == [market EXCEPT !.total_supply = x[1], !.total_borrowed = x[2]]

\* C38: the rate of the accrual is base + utilization * slope1 below the kink
\* and base + kink * slope1 + (utilization - kink) * slope2 from the kink on,
\* with utilization = total_borrowed * SCALE / max(1, total_supply); the two
\* branches meet at the kink, and the rate does not fall when utilization
\* rises.  The index grows by exactly index * rate * seconds / SCALE / year.
C38_RateModel ==
    /\ [](/\ ir_scaled_of(market)
                = StatedRate(market.interest_model, StatedUtilization(market))
          /\ \A x \in Utilizations :
                util_scaled_of(MarketAt(x)) = bps_scaled(market.interest_model.kink_bps)
                   => ir_scaled_of(MarketAt(x))
                         = bps_scaled(market.interest_model.base_rate_bps)
                            + MulDiv(util_scaled_of(MarketAt(x)),
                                     bps_scaled(market.interest_model.slope1_bps),
                                     RATE_SCALE)
          /\ \A x, y \in Utilizations :
                util_scaled_of(MarketAt(x)) <= util_scaled_of(MarketAt(y))
                   => ir_scaled_of(MarketAt(x)) <= ir_scaled_of(MarketAt(y)))
    /\ [][(last'.op = "accrue_interest" /\ now > market.last_accrued_ts)
             => market'.accumulated_index
                   = market.accumulated_index
                      + index_increment(market.accumulated_index,
                            StatedRate(market.interest_model,
                                       StatedUtilization(market)),
                            now - market.last_accrued_ts)]_vars

\* Interest has accrued on a market that stands exactly at its kink, at a
\* rate above the base rate.
C38_Witness ==
    /\ last.op = "accrue_interest"
    /\ market.accumulated_index > RATE_SCALE
    /\ util_scaled_of(market) = bps_scaled(market.interest_model.kink_bps)
    /\ ir_scaled_of(market) > bps_scaled(market.interest_model.base_rate_bps)
    /\ \E x \in Utilizations :
          util_scaled_of(MarketAt(x)) > util_scaled_of(market)

-----------------------------------------------------------------------------
(* C39: the pause timelock of the lending Market *)

\* One second before and at the end of the delay after a proposal made at
\* StartTime, and again after a proposal made at those times.
TimelockTimes ==
    {StartTime + 86399, StartTime + 86400, StartTime + 172799, StartTime + 172800}

InitTimelock == InitLending

\* The clock only moves forward.
NextTimelock ==
    \/ \E t \in TimelockTimes : t > now /\ set_clock(t)
    \/ \E authorised, paused \in BOOLEAN : pause_market(authorised, paused)
    \/ \E authorised \in BOOLEAN : execute_pause(authorised)
    \/ \E u \in Lenders, amount \in SupplyAmounts : supply(u, amount)
    \/ \E u \in Traders : borrow(u, 300)

SpecTimelock == InitTimelock /\ [][NextTimelock]_vars

\* C39: paused becomes true only in a successful execute_pause, which needs
\* the authority and a clock at least 86_400 seconds past the timestamp of
\* the pending proposal; a proposal is recorded only by a successful
\* pause_market(true) on an unpaused market without one, stamped with the
\* time of that call; pause_market(true) never changes paused and, while a
\* proposal is pending, fails with PauseProposalAlreadyExists and changes
\* nothing; pause_market(false) on a paused market unpauses at once and
\* leaves no proposal.
C39_PauseTimelock ==
    [][/\ (market'.paused /\ ~market.paused)
            => /\ last'.op = "execute_pause"
               /\ last'.err = "Ok"
               /\ market.pause_proposed_at.some
               /\ now >= market.pause_proposed_at.at + 86400
               /\ ~market'.pause_proposed_at.some
       /\ (market'.pause_proposed_at.some
              /\ market'.pause_proposed_at # market.pause_proposed_at)
            => /\ last'.op = "pause_market"
               /\ last'.amount = 1
               /\ last'.err = "Ok"
               /\ ~market.pause_proposed_at.some
               /\ ~market.paused
               /\ market'.pause_proposed_at.at = now
       /\ (last'.op = "pause_market" /\ last'.amount = 1)
            => market'.paused = market.paused
       /\ (last'.op = "pause_market" /\ last'.amount = 1
              /\ last'.err # "Unauthorized"
              /\ ~market.paused /\ market.pause_proposed_at.some)
            => /\ last'.err = "PauseProposalAlreadyExists"
               /\ market' = market
       /\ (last'.op = "pause_market" /\ last'.amount = 0 /\ last'.err = "Ok"
              /\ market.paused)
            => /\ ~market'.paused
               /\ ~market'.pause_proposed_at.some
       /\ (last'.op = "execute_pause" /\ last'.err # "Ok") => market' = market]_vars

\* The market has just been paused by an execute_pause made exactly 86_400
\* seconds after the proposal of StartTime.
C39_Witness ==
    /\ market.paused
    /\ last.op = "execute_pause"
    /\ last.err = "Ok"
    /\ now = StartTime + 86400
    /\ ~market.pause_proposed_at.some

-----------------------------------------------------------------------------
(* C40: the ids of LP positions *)

MaxLpOps == 4
\* <<base_amount, usdc_amount>>
LpIdOpenInputs == {<<1000, 1000>>, <<30000, 30000>>}

LpIdApply(o) ==
    LET changed == (o.st # LpState)
    IN  /\ (changed => nops < MaxLpOps)
        /\ crucible' = o.st.crucible
        /\ vault_amount' = o.st.vault_amount
        /\ treasury_amount' = o.st.treasury_amount
        /\ base_tokens' = o.st.base_tokens
        /\ usdc' = o.st.usdc
        /\ lp_accounts' = o.st.lp
        /\ last' = o.res
        /\ pending_mint' = NoPending
        /\ nops' = IF changed THEN nops + 1 ELSE nops
        /\ UNCHANGED <<now, slot, oracle, ctoken_supply, user_ctoken, positions,
                       inferno, marketVars, pool, pool_vault, pborrowers>>

lp_open(u, base_amount, usdc_amount, position_nonce) ==
    \E o \in {open_lp_position_result(LpState, u, base_amount, usdc_amount, 100,
                    position_nonce, OracleAccount(TRUE, oracle), now, slot)} :
        LpIdApply([o EXCEPT !.res.oracle_some = TRUE])

close_lp_position(u, max_slippage_bps, position_nonce) ==
    \E o \in {close_lp_position_result(LpState, u, max_slippage_bps,
                    position_nonce, OracleAccount(TRUE, oracle), now)} :
        LpIdApply([o EXCEPT !.res.oracle_some = TRUE])

InitLpIds == InitLp

NextLpIds ==
    \/ \E u \in Users, i \in LpIdOpenInputs, n \in Nonces : lp_open(u, i[1], i[2], n)
    \/ \E u \in Users, m \in {100, 10001}, n \in Nonces : close_lp_position(u, m, n)
    \/ \E q \in LpQuotes : publish_price(q)

SpecLpIds == InitLpIds /\ [][NextLpIds]_vars

LpKeys == Users \X Nonces

====
